---- MODULE Spec2Model ----
(***************************************************************************)
(* x402-go v2: the server-side payment gate.                               *)
(*                                                                         *)
(* One request is followed through the gating pipeline of                  *)
(*   - the net/http middleware (v2/http/transport.go, NewX402Middleware)   *)
(*     with its settlementInterceptor, and                                 *)
(*   - the MCP JSON-RPC handler (v2/mcp/server/handler.go, X402Handler).   *)
(* and, on the client side, one call through the auto-pay transports         *)
(*   - X402Transport.RoundTrip (v2/http/transport.go) and                  *)
(*   - Transport.SendRequest (v2/mcp/client).                              *)
(* The facilitator is an external service: every call to it returns one of *)
(* the outcomes its wire contract allows, chosen nondeterministically.     *)
(* The protected handler is arbitrary code: it makes any sequence of calls *)
(* on the response writer it is given, and then returns.                   *)
(***************************************************************************)
EXTENDS Integers, Sequences, FiniteSets, TLC

VARIABLES
    variant,      \* which server variant serves the request: "http" or "mcp"
    config,       \* Config: VerifyOnly, fallback facilitator, PaymentRequirements
    request,      \* the incoming request
    pc,           \* "start" -> "handler" -> "done"
    interceptor,  \* settlementInterceptor: committed, hijacked (+ how it committed)
    w,            \* the underlying http.ResponseWriter (what the client receives)
    facilitator,  \* calls made to the facilitators and what they answered
    handler,      \* the protected handler: whether it ran, how many calls it made
    recorder,     \* responseRecorder of the MCP handler: what the tool handler wrote
    client,       \* the auto-pay transport of a client: one call in progress
    call,         \* the FacilitatorClient: one Verify or Settle call in progress
    enrich        \* one EnrichRequirements call: the caller's data, the maps, the result

vars ==
    <<variant, config, request, pc, interceptor, w, facilitator, handler, recorder,
      client, call, enrich>>

----------------------------------------------------------------------------
(* Bounds of the model *)

\* most calls the protected handler makes on its response writer
MaxHandlerCalls == 3

----------------------------------------------------------------------------
(* Protocol data *)

X402Version == 2

\* PaymentRequirements, reduced to the fields the gate reads
Requirement(scheme, network) == [scheme |-> scheme, network |-> network]

\* Config.PaymentRequirements: a non-empty list (spec 6.4), of one or of two offers
RequirementLists ==
    {<<Requirement("exact", "eip155:84532")>>,
     <<Requirement("exact", "solana:devnet"), Requirement("exact", "eip155:84532")>>}

\* PaymentPayload, reduced to x402Version and accepted.(scheme, network)
PaymentPayload(version, scheme, network) ==
    [x402Version |-> version, scheme |-> scheme, network |-> network]

\* the payloads a client may present: one per offer, one of a scheme nobody offers,
\* one of protocol version 1
Payment ==
    {PaymentPayload(X402Version, "exact", "eip155:84532"),
     PaymentPayload(X402Version, "exact", "solana:devnet"),
     PaymentPayload(X402Version, "upto", "eip155:84532"),
     PaymentPayload(1, "exact", "eip155:84532")}

BoolStr(b) == IF b THEN "true" ELSE "false"

NoValue == <<>>

\* json.Marshal of a PaymentPayload, then base64
EncodePayment(p) ==
    <<"base64", <<"x402Version", p.x402Version, "scheme", p.scheme, "network", p.network>>>>

\* base64 decode, then json.Unmarshal; ok = FALSE on either failure
DecodePayment(enc) ==
    IF Len(enc) = 2 /\ enc[1] = "base64" /\ Len(enc[2]) = 6
    THEN [ok |-> TRUE,
          payment |-> [x402Version |-> enc[2][2], scheme |-> enc[2][4], network |-> enc[2][6]]]
    ELSE [ok |-> FALSE,
          payment |-> [x402Version |-> 0, scheme |-> "", network |-> ""]]

\* SettleResponse
SettleResponse(success, errorReason, transaction, network, payer) ==
    [success |-> success, errorReason |-> errorReason, transaction |-> transaction,
     network |-> network, payer |-> payer]

NoSettleResponse == SettleResponse(FALSE, "", "", "", "")

\* json.Marshal of a SettleResponse (errorReason and payer are omitempty), then base64
EncodeSettlement(s) ==
    <<"base64",
      <<"success", BoolStr(s.success)>>
      \o (IF s.errorReason # "" THEN <<"errorReason", s.errorReason>> ELSE <<>>)
      \o <<"transaction", s.transaction, "network", s.network>>
      \o (IF s.payer # "" THEN <<"payer", s.payer>> ELSE <<>>)>>

\* the value of key k in a marshalled object, d when the key is absent
RECURSIVE JSONField(_, _, _)
JSONField(json, k, d) ==
    IF Len(json) < 2 THEN d
    ELSE IF json[1] = k THEN json[2]
    ELSE JSONField(SubSeq(json, 3, Len(json)), k, d)

\* base64 decode, then json.Unmarshal into a SettleResponse
DecodeSettlement(enc) ==
    IF Len(enc) = 2 /\ enc[1] = "base64"
    THEN [ok |-> TRUE,
          settlement |-> SettleResponse(JSONField(enc[2], "success", "false") = "true",
                                        JSONField(enc[2], "errorReason", ""),
                                        JSONField(enc[2], "transaction", ""),
                                        JSONField(enc[2], "network", ""),
                                        JSONField(enc[2], "payer", ""))]
    ELSE [ok |-> FALSE, settlement |-> NoSettleResponse]

----------------------------------------------------------------------------
(* The facilitator: an external service *)

Facilitators == {"primary", "fallback"}

Transactions == {"0xabc", "0xdef"}

\* what one FacilitatorClient.Verify call returns: err is "" (a VerifyResponse came
\* back), "unavailable" (transport failure) or "failed" (a non-200 answer)
VerifyOutcomes ==
    {[err |-> "", isValid |-> TRUE, invalidReason |-> "", payer |-> "0xPayer"],
     [err |-> "", isValid |-> FALSE, invalidReason |-> "insufficient_funds", payer |-> ""],
     [err |-> "unavailable", isValid |-> FALSE, invalidReason |-> "", payer |-> ""],
     [err |-> "failed", isValid |-> FALSE, invalidReason |-> "", payer |-> ""]}

\* what one FacilitatorClient.Settle call returns
SettleOutcomes ==
    {[err |-> "", resp |-> SettleResponse(TRUE, "", t, "eip155:84532", "0xPayer")] :
        t \in Transactions}
    \cup {[err |-> "", resp |-> SettleResponse(FALSE, "insufficient_funds", "", "", "")],
          [err |-> "unavailable", resp |-> NoSettleResponse],
          [err |-> "failed", resp |-> NoSettleResponse]}

NoCalls == [f \in Facilitators |-> 0]

\* one more call recorded against facilitator f
Called(calls, f) == [calls EXCEPT ![f] = @ + 1]

----------------------------------------------------------------------------
(* The underlying http.ResponseWriter, as net/http and httptest implement it *)

Headers(contentType, xPaymentResponse, xHandler) ==
    [ContentType |-> contentType, XPaymentResponse |-> xPaymentResponse,
     XHandler |-> xHandler]

NoHeaders == Headers(NoValue, NoValue, NoValue)

\* a piece of response body: who wrote it, and what it says
Body(from, kind, code, version, error, accepts, settlement) ==
    [from |-> from, kind |-> kind, code |-> code, x402Version |-> version,
     error |-> error, resource |-> NoValue, accepts |-> accepts,
     settlement |-> settlement]

\* a piece of an HTTP body (no JSON-RPC code, no settlement in it)
Chunk(from, kind, version, error, accepts) ==
    Body(from, kind, 0, version, error, accepts, NoValue)

HandlerBytes == Chunk("handler", "bytes", 0, "", <<>>)

NewResponseWriter ==
    [wroteHeader |-> FALSE, status |-> 0, header |-> NoHeaders, sent |-> NoHeaders,
     body |-> <<>>, hijacked |-> FALSE]

\* ResponseWriter.WriteHeader: the first call sends the status line and the header
\* map as it is at that moment; later calls are superfluous
WWriteHeader(W, statusCode) ==
    IF W.wroteHeader \/ W.hijacked THEN W
    ELSE [W EXCEPT !.wroteHeader = TRUE, !.status = statusCode, !.sent = W.header]

\* ResponseWriter.Write: an implicit WriteHeader(200) if none was made
WWrite(W, b) ==
    IF W.hijacked THEN W
    ELSE [WWriteHeader(W, 200) EXCEPT !.body = Append(@, b)]

\* Flusher.Flush: sends the status line and headers if they are not out yet
WFlush(W) == WWriteHeader(W, 200)

\* Hijacker.Hijack: the connection leaves the server's hands
WHijack(W) == [W EXCEPT !.hijacked = TRUE]

\* w.Header().Set(k, v)
WSetHeader(W, k, v) == [W EXCEPT !.header[k] = <<v>>]

\* http.Error: a text/plain body under the given status
HTTPError(W, msg, code) ==
    WWrite(WWriteHeader(WSetHeader(W, "ContentType", "text/plain"), code),
           Chunk("middleware", "text", 0, msg, <<>>))

----------------------------------------------------------------------------
(* v2/http/internal/helpers *)

\* ParsePaymentHeader: decode X-PAYMENT, then check the protocol version
ParsePaymentHeader(header) ==
    LET d == DecodePayment(header)
    IN  IF header = NoValue THEN [err |-> "malformed", payment |-> d.payment]
        ELSE IF ~d.ok THEN [err |-> "decode", payment |-> d.payment]
        ELSE IF d.payment.x402Version # X402Version
             THEN [err |-> "version", payment |-> d.payment]
        ELSE [err |-> "", payment |-> d.payment]

\* SendPaymentRequired that leaves the requirements out of the body
SendPaymentRequiredWithoutAccepts(W, requirements, errMsg) ==
    WWrite(WWriteHeader(WSetHeader(W, "ContentType", "application/json"), 402),
           Chunk("middleware", "PaymentRequired", X402Version, errMsg, <<>>))

\* SendPaymentRequired: 402 with the JSON of a PaymentRequired
SendPaymentRequired(W, requirements, errMsg) ==
    WWrite(WWriteHeader(WSetHeader(W, "ContentType", "application/json"), 402),
           Chunk("middleware", "PaymentRequired", X402Version, errMsg, requirements))

\* AddPaymentResponseHeader: X-PAYMENT-RESPONSE := base64(JSON(settlement))
AddPaymentResponseHeader(W, settlement) ==
    WSetHeader(W, "XPaymentResponse", EncodeSettlement(settlement))

\* FindMatchingRequirement: index of the first requirement with the payment's
\* scheme and network, 0 when there is none
FindMatchingRequirement(payment, requirements) ==
    LET matches == {i \in 1..Len(requirements) :
                       /\ requirements[i].network = payment.network
                       /\ requirements[i].scheme = payment.scheme}
    IN  IF matches = {} THEN 0
        ELSE CHOOSE i \in matches : \A j \in matches : i <= j

\* FacilitatorClient.EnrichRequirements as the gate sees it: the same requirements,
\* in the same order (extra is not read by the gate)
EnrichRequirements(requirements) == requirements

----------------------------------------------------------------------------
(* Verify and Settle with the fallback facilitator *)

NoVerifyResponse == [err |-> "none", isValid |-> FALSE, invalidReason |-> "", payer |-> ""]
NoSettleResult == [err |-> "none", resp |-> NoSettleResponse]

NewFacilitatorLog ==
    [verifyCalls |-> NoCalls, settleCalls |-> NoCalls, verify |-> NoVerifyResponse,
     verifyPrimary |-> NoVerifyResponse, settle |-> NoSettleResult, settleRuns |-> 0]

\* facilitator.Verify, then fallbackFacilitator.Verify if the first returned an error
\* and a fallback is configured; o1 and o2 are what the two facilitators answer
VerifyWithFallback(F, o1, o2) ==
    LET useFallback == o1.err # "" /\ config.fallback
        F1 == [F EXCEPT !.verifyCalls = Called(@, "primary"), !.verifyPrimary = o1]
    IN  IF useFallback
        THEN [F1 EXCEPT !.verifyCalls = Called(@, "fallback"), !.verify = o2]
        ELSE [F1 EXCEPT !.verify = o1]

\* facilitator.Settle, then fallbackFacilitator.Settle if the first returned an error
\* and a fallback is configured
SettleWithFallback(F, o1, o2) ==
    LET useFallback == o1.err # "" /\ config.fallback
        F1 == [F EXCEPT !.settleCalls = Called(@, "primary")]
    IN  IF useFallback
        THEN [F1 EXCEPT !.settleCalls = Called(@, "fallback"), !.settle = o2]
        ELSE [F1 EXCEPT !.settle = o1]

----------------------------------------------------------------------------
(* settlementInterceptor (v2/http/transport.go) *)

NewInterceptor == [committed |-> FALSE, hijacked |-> FALSE, commitStatus |-> 0]

\* the interceptor, the writer under it and the facilitator log, as one value
Bundle(i, W, F) == [i |-> i, w |-> W, f |-> F]

\* settleFunc without its VerifyOnly early return
settleFuncIgnoringVerifyOnly(W, F, o1, o2) ==
    LET F1 == SettleWithFallback([F EXCEPT !.settleRuns = @ + 1], o1, o2)
    IN  IF F1.settle.err # ""
        THEN [ok |-> FALSE, f |-> F1,
              w |-> HTTPError(W, "Payment settlement failed", 503)]
        ELSE IF ~F1.settle.resp.success
             THEN [ok |-> FALSE, f |-> F1,
                   w |-> SendPaymentRequired(W, config.requirements,
                                             F1.settle.resp.errorReason)]
        ELSE [ok |-> TRUE, f |-> F1, w |-> AddPaymentResponseHeader(W, F1.settle.resp)]

\* settleFunc: the closure NewX402Middleware hands to the interceptor
settleFunc(W, F, o1, o2) ==
    LET ran == [F EXCEPT !.settleRuns = @ + 1]
        F1 == SettleWithFallback(ran, o1, o2)
        accepts == EnrichRequirements(config.requirements)
    IN  IF config.VerifyOnly THEN [ok |-> TRUE, w |-> W, f |-> ran]
        ELSE IF F1.settle.err # ""
             THEN [ok |-> FALSE, f |-> F1,
                   w |-> HTTPError(W, "Payment settlement failed", 503)]
        ELSE IF ~F1.settle.resp.success
             THEN [ok |-> FALSE, f |-> F1,
                   w |-> SendPaymentRequired(W, accepts, F1.settle.resp.errorReason)]
        ELSE [ok |-> TRUE, f |-> F1, w |-> AddPaymentResponseHeader(W, F1.settle.resp)]

\* WriteHeader without the statusCode >= 400 pass-through: it settles on any status
InterceptorWriteHeaderSettlingOnError(S, statusCode, o1, o2) ==
    LET i1 == [S.i EXCEPT !.committed = TRUE, !.commitStatus = statusCode]
        r == settleFunc(S.w, S.f, o1, o2)
    IN  IF S.i.committed THEN S
        ELSE IF ~r.ok THEN Bundle([i1 EXCEPT !.hijacked = TRUE], r.w, r.f)
        ELSE Bundle(i1, WWriteHeader(r.w, statusCode), r.f)

\* settlementInterceptor.WriteHeader
InterceptorWriteHeader(S, statusCode, o1, o2) ==
    LET i1 == [S.i EXCEPT !.committed = TRUE, !.commitStatus = statusCode]
        r == settleFunc(S.w, S.f, o1, o2)
    IN  IF S.i.committed THEN S
        ELSE IF statusCode >= 400
             THEN Bundle(i1, WWriteHeader(S.w, statusCode), S.f)
        ELSE IF ~r.ok THEN Bundle([i1 EXCEPT !.hijacked = TRUE], r.w, r.f)
        ELSE Bundle(i1, WWriteHeader(r.w, statusCode), r.f)

\* settlementInterceptor.Write
InterceptorWrite(S, b, o1, o2) ==
    LET S1 == IF ~S.i.committed THEN InterceptorWriteHeader(S, 200, o1, o2) ELSE S
    IN  IF S1.i.hijacked THEN S1
        ELSE [S1 EXCEPT !.w = WWrite(@, b)]

\* settlementInterceptor.Flush
InterceptorFlush(S) == [S EXCEPT !.w = WFlush(@)]

\* Hijack that settles but forgets to mark the interceptor committed
InterceptorHijackWithoutCommit(S, o1, o2) ==
    LET r == settleFunc(S.w, S.f, o1, o2)
    IN  IF S.i.committed
        THEN [conn |-> TRUE, s |-> [S EXCEPT !.w = WHijack(@)]]
        ELSE IF ~r.ok
             THEN [conn |-> FALSE, s |-> Bundle([S.i EXCEPT !.hijacked = TRUE], r.w, r.f)]
        ELSE [conn |-> TRUE, s |-> Bundle(S.i, WHijack(r.w), r.f)]

\* settlementInterceptor.Hijack; conn tells whether the connection was returned
InterceptorHijack(S, o1, o2) ==
    LET i1 == [S.i EXCEPT !.committed = TRUE]
        r == settleFunc(S.w, S.f, o1, o2)
    IN  IF S.i.committed
        THEN [conn |-> TRUE, s |-> [S EXCEPT !.w = WHijack(@)]]
        ELSE IF ~r.ok
             THEN [conn |-> FALSE, s |-> Bundle([i1 EXCEPT !.hijacked = TRUE], r.w, r.f)]
        ELSE [conn |-> TRUE, s |-> Bundle(i1, WHijack(r.w), r.f)]

\* settlementInterceptor.Header
InterceptorSetHeader(S, k, v) == [S EXCEPT !.w = WSetHeader(@, k, v)]

----------------------------------------------------------------------------
(* NewX402Middleware (v2/http/transport.go): the gate in front of the handler *)

HandlerStatuses == {200, 399, 400, 500}

NewHandler ==
    [ran |-> FALSE, gated |-> FALSE, calls |-> 0, writes |-> 0, returned |-> FALSE,
     conn |-> FALSE, refused |-> FALSE]

\* the X-PAYMENT header values a client may send: none, garbage, or an encoded payload
PaymentHeaders == {NoValue, <<"garbage">>} \cup {EncodePayment(p) : p \in Payment}

\* the middleware without its check of verifyResp.IsValid
MiddlewareTrustingAnyAnswer(o1, o2) ==
    LET accepts == EnrichRequirements(config.requirements)
        parsed == ParsePaymentHeader(request.header)
        match == FindMatchingRequirement(parsed.payment, accepts)
        F1 == VerifyWithFallback(facilitator, o1, o2)
    IN  /\ variant = "http"
        /\ pc = "start"
        /\ IF request.header = NoValue
           THEN /\ w' = SendPaymentRequired(w, accepts, "Payment required")
                /\ pc' = "done"
                /\ UNCHANGED <<facilitator, handler>>
           ELSE IF parsed.err # ""
           THEN /\ w' = HTTPError(w, "Invalid payment header", 400)
                /\ pc' = "done"
                /\ UNCHANGED <<facilitator, handler>>
           ELSE IF match = 0
           THEN /\ w' = SendPaymentRequired(w, accepts, "No matching payment requirement")
                /\ pc' = "done"
                /\ UNCHANGED <<facilitator, handler>>
           ELSE IF F1.verify.err # ""
           THEN /\ w' = HTTPError(w, "Payment verification failed", 503)
                /\ facilitator' = F1
                /\ pc' = "done"
                /\ UNCHANGED handler
           ELSE /\ facilitator' = F1
                /\ handler' = [handler EXCEPT !.ran = TRUE, !.gated = TRUE]
                /\ pc' = "handler"
                /\ UNCHANGED w
        /\ UNCHANGED <<enrich, call, client, variant, config, request, interceptor, recorder>>

\* the middleware closure up to next.ServeHTTP(interceptor, r); o1 and o2 are the
\* answers of the primary and the fallback facilitator's /verify
Middleware(o1, o2) ==
    LET accepts == EnrichRequirements(config.requirements)
        parsed == ParsePaymentHeader(request.header)
        match == FindMatchingRequirement(parsed.payment, accepts)
        F1 == VerifyWithFallback(facilitator, o1, o2)
    IN  /\ variant = "http"
        /\ pc = "start"
        /\ IF request.header = NoValue
           THEN /\ w' = SendPaymentRequired(w, accepts, "Payment required")
                /\ pc' = "done"
                /\ UNCHANGED <<facilitator, handler>>
           ELSE IF parsed.err # ""
           THEN /\ w' = HTTPError(w, "Invalid payment header", 400)
                /\ pc' = "done"
                /\ UNCHANGED <<facilitator, handler>>
           ELSE IF match = 0
           THEN /\ w' = SendPaymentRequired(w, accepts, "No matching payment requirement")
                /\ pc' = "done"
                /\ UNCHANGED <<facilitator, handler>>
           ELSE IF F1.verify.err # ""
           THEN /\ w' = HTTPError(w, "Payment verification failed", 503)
                /\ facilitator' = F1
                /\ pc' = "done"
                /\ UNCHANGED handler
           ELSE IF ~F1.verify.isValid
           THEN /\ w' = SendPaymentRequired(w, accepts, F1.verify.invalidReason)
                /\ facilitator' = F1
                /\ pc' = "done"
                /\ UNCHANGED handler
           ELSE /\ facilitator' = F1
                /\ handler' = [handler EXCEPT !.ran = TRUE, !.gated = TRUE]
                /\ pc' = "handler"
                /\ UNCHANGED w
        /\ UNCHANGED <<enrich, call, client, variant, config, request, interceptor, recorder>>

\* the handler is running behind the interceptor and may make one more call
InHandler ==
    /\ variant = "http"
    /\ pc = "handler"
    /\ handler.calls < MaxHandlerCalls

Current == Bundle(interceptor, w, facilitator)

\* the state after a call of the handler on the interceptor
Becomes(S) ==
    /\ interceptor' = S.i
    /\ w' = S.w
    /\ facilitator' = S.f

\* the handler calls w.WriteHeader(statusCode)
HandlerWriteHeader(statusCode, o1, o2) ==
    /\ InHandler
    /\ Becomes(InterceptorWriteHeader(Current, statusCode, o1, o2))
    /\ handler' = [handler EXCEPT !.calls = @ + 1]
    /\ UNCHANGED <<enrich, call, client, variant, config, request, pc, recorder>>

\* the handler calls w.Write(b)
HandlerWrite(o1, o2) ==
    /\ InHandler
    /\ Becomes(InterceptorWrite(Current, HandlerBytes, o1, o2))
    /\ handler' = [handler EXCEPT !.calls = @ + 1, !.writes = @ + 1]
    /\ UNCHANGED <<enrich, call, client, variant, config, request, pc, recorder>>

\* the handler calls w.(http.Flusher).Flush()
HandlerFlush ==
    /\ InHandler
    /\ Becomes(InterceptorFlush(Current))
    /\ handler' = [handler EXCEPT !.calls = @ + 1]
    /\ UNCHANGED <<enrich, call, client, variant, config, request, pc, recorder>>

\* the handler calls w.(http.Hijacker).Hijack()
HandlerHijack(o1, o2) ==
    LET r == InterceptorHijack(Current, o1, o2)
    IN  /\ InHandler
        /\ ~handler.conn
        /\ Becomes(r.s)
        /\ handler' = [handler EXCEPT !.calls = @ + 1, !.conn = r.conn,
                                      !.refused = @ \/ ~r.conn]
        /\ UNCHANGED <<enrich, call, client, variant, config, request, pc, recorder>>

\* the handler calls w.Header().Set("X-Handler", ...)
HandlerSetHeader ==
    /\ InHandler
    /\ Becomes(InterceptorSetHeader(Current, "XHandler", "set-by-handler"))
    /\ handler' = [handler EXCEPT !.calls = @ + 1]
    /\ UNCHANGED <<enrich, call, client, variant, config, request, pc, recorder>>

\* the handler returns; net/http then completes the response: a handler that wrote
\* nothing gets the implicit 200 with an empty body
HandlerReturn ==
    /\ variant = "http"
    /\ pc = "handler"
    /\ w' = WWriteHeader(w, 200)
    /\ handler' = [handler EXCEPT !.returned = TRUE]
    /\ pc' = "done"
    /\ UNCHANGED <<enrich, call, client, variant, config, request, interceptor, facilitator, recorder>>

----------------------------------------------------------------------------
(* NewX402Middleware of the Gin adapter (v2/http/gin) *)

\* gin's ResponseWriter.WriteHeader: the status is only noted until the first write
GinWriteHeader(W, code) ==
    IF W.wroteHeader THEN W ELSE [W EXCEPT !.status = code]

\* gin's ResponseWriter.WriteHeaderNow: the noted status (200 by default) goes out
GinWriteHeaderNow(W) == WWriteHeader(W, IF W.status = 0 THEN 200 ELSE W.status)

\* gin's ResponseWriter.Write
GinWrite(W, b) == WWrite(GinWriteHeaderNow(W), b)

\* c.AbortWithStatusJSON(code, obj)
GinAbortWithStatusJSON(W, code, obj) ==
    GinWrite(GinWriteHeader(WSetHeader(W, "ContentType", "application/json; charset=utf-8"),
                            code),
             obj)

\* sendPaymentRequiredGin
sendPaymentRequiredGin(W, requirements, errMsg) ==
    GinAbortWithStatusJSON(W, 402,
        Chunk("middleware", "PaymentRequired", X402Version, errMsg, requirements))

\* the Gin middleware function up to c.Next(); v1, v2 are the answers of the two
\* facilitators' /verify, s1, s2 those of their /settle
GinMiddleware(v1, v2, s1, s2) ==
    LET accepts == EnrichRequirements(config.requirements)
        parsed == ParsePaymentHeader(request.header)
        match == FindMatchingRequirement(parsed.payment, accepts)
        F1 == VerifyWithFallback(facilitator, v1, v2)
        F2 == SettleWithFallback([F1 EXCEPT !.settleRuns = @ + 1], s1, s2)
        abort(W, F) ==
            /\ w' = W
            /\ facilitator' = F
            /\ pc' = "done"
            /\ UNCHANGED handler
        next(W, F) ==
            /\ w' = W
            /\ facilitator' = F
            /\ handler' = [handler EXCEPT !.ran = TRUE, !.gated = TRUE]
            /\ pc' = "handler"
    IN  /\ variant = "gin"
        /\ pc = "start"
        /\ IF request.header = NoValue
           THEN abort(sendPaymentRequiredGin(w, accepts, "Payment required"), facilitator)
           ELSE IF parsed.err # ""
           THEN abort(GinAbortWithStatusJSON(w, 400,
                          Chunk("middleware", "json", X402Version,
                                "Invalid payment header", <<>>)),
                      facilitator)
           ELSE IF match = 0
           THEN abort(sendPaymentRequiredGin(w, accepts, "No matching payment requirement"),
                      facilitator)
           ELSE IF F1.verify.err # ""
           THEN abort(GinAbortWithStatusJSON(w, 503,
                          Chunk("middleware", "json", X402Version,
                                "Payment verification failed", <<>>)),
                      F1)
           ELSE IF ~F1.verify.isValid
           THEN abort(sendPaymentRequiredGin(w, accepts, F1.verify.invalidReason), F1)
           ELSE IF config.VerifyOnly THEN next(w, F1)
           ELSE IF F2.settle.err # ""
           THEN abort(GinAbortWithStatusJSON(w, 503,
                          Chunk("middleware", "json", X402Version,
                                "Payment settlement failed", <<>>)),
                      F2)
           ELSE IF ~F2.settle.resp.success
           THEN abort(sendPaymentRequiredGin(w, accepts, F2.settle.resp.errorReason), F2)
           ELSE next(AddPaymentResponseHeader(w, F2.settle.resp), F2)
        /\ UNCHANGED <<enrich, call, client, variant, config, request, interceptor, recorder>>

\* the Gin handler is running and may make one more call
InGinHandler ==
    /\ variant = "gin"
    /\ pc = "handler"
    /\ handler.calls < MaxHandlerCalls

\* the Gin handler calls c.Status(statusCode)
GinHandlerStatus(statusCode) ==
    /\ InGinHandler
    /\ w' = GinWriteHeader(w, statusCode)
    /\ handler' = [handler EXCEPT !.calls = @ + 1]
    /\ UNCHANGED <<enrich, call, client, variant, config, request, pc, interceptor, facilitator, recorder>>

\* the Gin handler writes body bytes
GinHandlerWrite ==
    /\ InGinHandler
    /\ w' = GinWrite(w, HandlerBytes)
    /\ handler' = [handler EXCEPT !.calls = @ + 1, !.writes = @ + 1]
    /\ UNCHANGED <<enrich, call, client, variant, config, request, pc, interceptor, facilitator, recorder>>

\* c.Next() returns; gin then writes the header if the handler left it unwritten
GinHandlerReturn ==
    /\ variant = "gin"
    /\ pc = "handler"
    /\ w' = GinWriteHeaderNow(w)
    /\ handler' = [handler EXCEPT !.returned = TRUE]
    /\ pc' = "done"
    /\ UNCHANGED <<enrich, call, client, variant, config, request, interceptor, facilitator, recorder>>

----------------------------------------------------------------------------
(* X402Handler (v2/mcp/server/handler.go): the gate in front of the MCP handler *)

PaidTool == "paid_tool"
FreeTool == "free_tool"

\* params._meta["x402/payment"]: absent, or a PaymentPayload inline
MetaPayments == {NoValue} \cup {<<p>> : p \in Payment}

MCPRequest(method, rpc, paramsOK, tool, payment) ==
    [method |-> method, rpc |-> rpc, paramsOK |-> paramsOK, tool |-> tool,
     payment |-> payment]

\* the requests an MCP client may send: a GET, a body that is no JSON-RPC request,
\* another method, tools/call with broken params, and tools/call of either tool
MCPRequests ==
    {MCPRequest("GET", "", TRUE, "", NoValue),
     MCPRequest("POST", "unparseable", TRUE, "", NoValue),
     MCPRequest("POST", "initialize", TRUE, "", NoValue),
     MCPRequest("POST", "tools/call", FALSE, "", NoValue)}
    \cup {MCPRequest("POST", "tools/call", TRUE, t, m) :
             t \in {PaidTool, FreeTool}, m \in MetaPayments}

NewRecorder == [headerMap |-> NoHeaders, statusCode |-> 200, body |-> <<>>]

\* fmt.Sprintf(format, arg): the format's text followed by the argument
Sprintf(format, arg) == <<format, arg>>

\* SetToolResource: the default resource of a tool
SetToolResource(toolName) == Sprintf("mcp://tools/", toolName)

\* checkPaymentRequired: whether the tool is registered with at least one
\* requirement, and the ToolPaymentConfig to charge it under
checkPaymentRequired(toolName) ==
    [needsPayment |-> toolName = PaidTool /\ Len(config.requirements) > 0,
     Resource |-> IF config.resource = "" THEN SetToolResource(toolName)
                  ELSE <<config.resource>>,
     Requirements |-> config.requirements]

\* extractPayment: the payload under _meta, nil when absent or of another version
extractPayment(meta) ==
    IF meta = NoValue THEN NoValue
    ELSE IF meta[1].x402Version # X402Version THEN NoValue
    ELSE meta

\* writeError: a JSON-RPC error object under HTTP 200; message is a sequence of the
\* pieces of text it is made of
writeError(W, code, message, version, accepts, settlement) ==
    WWrite(WWriteHeader(WSetHeader(W, "ContentType", "application/json"), 200),
           Body("middleware", "rpcError", code, version, message, accepts, settlement))

\* sendPaymentRequiredError that sends the bare error, without its data
sendPaymentRequiredErrorWithoutData(W, paymentConfig) ==
    writeError(W, 402, <<"Payment required">>, 0, <<>>, NoValue)

\* sendPaymentRequiredError: JSON-RPC error 402 whose data is the PaymentRequired
sendPaymentRequiredError(W, paymentConfig) ==
    LET sent == writeError(W, 402, <<"Payment required">>, X402Version,
                           paymentConfig.Requirements, NoValue)
    IN  [sent EXCEPT !.body[Len(sent.body)].resource = paymentConfig.Resource]

\* X402Handler.ServeHTTP up to the call of the wrapped MCP handler
ServeHTTP(o1, o2) ==
    LET paymentConfig == checkPaymentRequired(request.tool)
        payment == extractPayment(request.payment)
        match == FindMatchingRequirement(payment[1], paymentConfig.Requirements)
        F1 == VerifyWithFallback(facilitator, o1, o2)
        passThrough ==
            /\ handler' = [handler EXCEPT !.ran = TRUE]
            /\ pc' = "handler"
            /\ UNCHANGED <<w, facilitator>>
        answer(W) ==
            /\ w' = W
            /\ pc' = "done"
            /\ UNCHANGED handler
    IN  /\ variant = "mcp"
        /\ pc = "start"
        /\ IF request.method # "POST" THEN passThrough
           ELSE IF request.rpc = "unparseable"
           THEN answer(writeError(w, -32700, <<"Parse error">>, 0, <<>>, NoValue))
                /\ UNCHANGED facilitator
           ELSE IF request.rpc # "tools/call" THEN passThrough
           ELSE IF ~request.paramsOK
           THEN answer(writeError(w, -32602, <<"Invalid params">>, 0, <<>>, NoValue))
                /\ UNCHANGED facilitator
           ELSE IF ~paymentConfig.needsPayment THEN passThrough
           ELSE IF payment = NoValue
           THEN answer(sendPaymentRequiredError(w, paymentConfig))
                /\ UNCHANGED facilitator
           ELSE IF match = 0
           THEN answer(writeError(w, 402,
                                  Sprintf("Payment invalid: ", "no matching requirement"),
                                  0, <<>>, NoValue))
                /\ UNCHANGED facilitator
           ELSE IF F1.verify.err # ""
           THEN answer(writeError(w, -32603, Sprintf("Verification failed: ", F1.verify.err),
                            0, <<>>, NoValue))
                /\ facilitator' = F1
           ELSE IF ~F1.verify.isValid
           THEN answer(writeError(w, 402, Sprintf("Payment invalid: ", F1.verify.invalidReason),
                            0, <<>>, NoValue))
                /\ facilitator' = F1
           ELSE /\ facilitator' = F1
                /\ handler' = [handler EXCEPT !.ran = TRUE, !.gated = TRUE]
                /\ pc' = "handler"
                /\ UNCHANGED w
        /\ UNCHANGED <<enrich, call, client, variant, config, request, interceptor, recorder>>

\* what the wrapped MCP handler may write: a JSON-RPC result, a JSON-RPC error, or
\* bytes that are not one JSON object (an event stream, say)
ToolOutputs == {"rpcResult", "rpcError", "raw"}

ToolBody(kind) ==
    Body("tool", kind, IF kind = "rpcError" THEN -32000 ELSE 0, 0,
         IF kind = "rpcError" THEN <<"tool failed">> ELSE <<>>, <<>>, NoValue)

InTool ==
    /\ variant = "mcp"
    /\ pc = "handler"
    /\ handler.calls < MaxHandlerCalls

\* the wrapped handler calls WriteHeader: on the recorder when gated, else on w
ToolWriteHeader(statusCode) ==
    /\ InTool
    /\ IF handler.gated
       THEN /\ recorder' = [recorder EXCEPT !.statusCode = statusCode]
            /\ UNCHANGED w
       ELSE /\ w' = WWriteHeader(w, statusCode)
            /\ UNCHANGED recorder
    /\ handler' = [handler EXCEPT !.calls = @ + 1]
    /\ UNCHANGED <<enrich, call, client, variant, config, request, pc, interceptor, facilitator>>

\* the wrapped handler calls Write
ToolWrite(kind) ==
    /\ InTool
    /\ IF handler.gated
       THEN /\ recorder' = [recorder EXCEPT !.body = Append(@, ToolBody(kind))]
            /\ UNCHANGED w
       ELSE /\ w' = WWrite(w, ToolBody(kind))
            /\ UNCHANGED recorder
    /\ handler' = [handler EXCEPT !.calls = @ + 1]
    /\ UNCHANGED <<enrich, call, client, variant, config, request, pc, interceptor, facilitator>>

\* the wrapped handler calls Header().Set
ToolSetHeader ==
    /\ InTool
    /\ IF handler.gated
       THEN /\ recorder' = [recorder EXCEPT !.headerMap.XHandler = <<"set-by-handler">>]
            /\ UNCHANGED w
       ELSE /\ w' = WSetHeader(w, "XHandler", "set-by-handler")
            /\ UNCHANGED recorder
    /\ handler' = [handler EXCEPT !.calls = @ + 1]
    /\ UNCHANGED <<enrich, call, client, variant, config, request, pc, interceptor, facilitator>>

\* for k, v := range recorder.headerMap { w.Header()[k] = v }
CopyHeaders(W, headerMap) ==
    [W EXCEPT !.header =
        [k \in DOMAIN W.header |->
            IF headerMap[k] # NoValue THEN headerMap[k] ELSE W.header[k]]]

RECURSIVE WriteAll(_, _)
WriteAll(W, body) ==
    IF body = <<>> THEN W ELSE WriteAll(WWrite(W, Head(body)), Tail(body))

\* the recorded response, forwarded as it is
Forward(W, rec) ==
    WriteAll(WWriteHeader(CopyHeaders(W, rec.headerMap), rec.statusCode), rec.body)

\* json.Unmarshal of the recorded body into a JSON-RPC response: it must be one object
ParsesAsJSONRPC(body) ==
    Len(body) = 1 /\ body[1].kind \in {"rpcResult", "rpcError"}

\* forwardAndSettle without its check of jsonrpcResp.Error
forwardAndSettleSettlingOnError(W, F, rec, o1, o2) ==
    LET F1 == SettleWithFallback([F EXCEPT !.settleRuns = @ + 1], o1, o2)
        payment == extractPayment(request.payment)[1]
        failed == F1.settle.err # "" \/ ~F1.settle.resp.success
        reason == IF F1.settle.err # "" THEN F1.settle.err
                  ELSE F1.settle.resp.errorReason
        failure == SettleResponse(FALSE, reason, "", payment.network, F.verify.payer)
        synthetic == SettleResponse(TRUE, "", "", payment.network, F.verify.payer)
        settleResp == IF config.VerifyOnly THEN synthetic ELSE F1.settle.resp
        modified == [rec EXCEPT !.body = <<[rec.body[1] EXCEPT !.settlement = <<settleResp>>]>>]
    IN  IF ~ParsesAsJSONRPC(rec.body) THEN [w |-> Forward(W, rec), f |-> F]
        ELSE IF ~config.VerifyOnly /\ failed
             THEN [w |-> writeError(W, -32603, Sprintf("Settlement failed: ", reason),
                                   0, <<>>, <<failure>>),
                   f |-> F1]
        ELSE [w |-> Forward(W, modified), f |-> IF config.VerifyOnly THEN F ELSE F1]

\* forwardAndSettle after the wrapped handler has returned
forwardAndSettle(W, F, rec, o1, o2) ==
    LET F1 == SettleWithFallback([F EXCEPT !.settleRuns = @ + 1], o1, o2)
        payment == extractPayment(request.payment)[1]
        failed == F1.settle.err # "" \/ ~F1.settle.resp.success
        reason == IF F1.settle.err # "" THEN F1.settle.err
                  ELSE F1.settle.resp.errorReason
        failure == SettleResponse(FALSE, reason, "", payment.network, F.verify.payer)
        synthetic == SettleResponse(TRUE, "", "", payment.network, F.verify.payer)
        settleResp == IF config.VerifyOnly THEN synthetic ELSE F1.settle.resp
        modified == [rec EXCEPT !.body = <<[rec.body[1] EXCEPT !.settlement = <<settleResp>>]>>]
    IN  IF ~ParsesAsJSONRPC(rec.body) THEN [w |-> Forward(W, rec), f |-> F]
        ELSE IF rec.body[1].kind = "rpcError" THEN [w |-> Forward(W, rec), f |-> F]
        ELSE IF ~config.VerifyOnly /\ failed
             THEN [w |-> writeError(W, -32603, Sprintf("Settlement failed: ", reason),
                                   0, <<>>, <<failure>>),
                   f |-> F1]
        ELSE [w |-> Forward(W, modified), f |-> IF config.VerifyOnly THEN F ELSE F1]

\* the wrapped handler returns: a gated call goes on to forwardAndSettle, a
\* passed-through one is completed by net/http
ToolReturn(o1, o2) ==
    LET r == forwardAndSettle(w, facilitator, recorder, o1, o2)
    IN  /\ variant = "mcp"
        /\ pc = "handler"
        /\ IF handler.gated
           THEN /\ w' = WWriteHeader(r.w, 200)
                /\ facilitator' = r.f
           ELSE /\ w' = WWriteHeader(w, 200)
                /\ UNCHANGED facilitator
        /\ handler' = [handler EXCEPT !.returned = TRUE]
        /\ pc' = "done"
        /\ UNCHANGED <<enrich, call, client, variant, config, request, interceptor, recorder>>

----------------------------------------------------------------------------
(* The auto-pay transports of the client: X402Transport (v2/http) and           *)
(* Transport (v2/mcp/client)                                                    *)

\* a PaymentRequirements as a server offers it in a 402: the fields of Requirement
\* and the amount, asset and recipient
Offer(scheme, network, amount, asset, payTo) ==
    [scheme |-> scheme, network |-> network, amount |-> amount, asset |-> asset,
     payTo |-> payTo]

NoOffer == Offer("", "", "", "", "")

\* the amount strings a server may send
AmountStrings == {"0", "400000", "1000000", "-1", "abc"}

\* new(big.Int).SetString(str, 10): the value, and whether str is a decimal integer
SetString(str) ==
    CASE str = "0" -> [ok |-> TRUE, value |-> 0]
      [] str = "400000" -> [ok |-> TRUE, value |-> 400000]
      [] str = "1000000" -> [ok |-> TRUE, value |-> 1000000]
      [] str = "-1" -> [ok |-> TRUE, value |-> 0 - 1]
      [] OTHER -> [ok |-> FALSE, value |-> 0]

\* strings.EqualFold on the addresses in use: equality up to the case of letters
Lower(str) ==
    CASE str = "0xUSDC" -> "0xusdc"
      [] str = "0xDAI" -> "0xdai"
      [] OTHER -> str

EqualFold(a, b) == Lower(a) = Lower(b)

\* validation.ValidateAmount: the error it returns, "" for nil
ValidateAmount(amount) ==
    IF amount = "" THEN "amount cannot be empty"
    ELSE IF ~SetString(amount).ok THEN "invalid amount format"
    ELSE IF SetString(amount).value < 0 THEN "amount cannot be negative"
    ELSE ""

\* what the server may offer in a 402
OfferedAccepts ==
    LET usdc == Offer("exact", "eip155:84532", "1000000", "0xUSDC", "0xMerchant")
        dai == Offer("exact", "eip155:84532", "400000", "0xDAI", "0xTreasury")
        sol == Offer("exact", "solana:devnet", "400000", "SoLUSDC", "SoLMerchant")
        bad == Offer("exact", "eip155:84532", "abc", "0xUSDC", "0xMerchant")
        neg == Offer("exact", "eip155:84532", "-1", "0xUSDC", "0xMerchant")
        free == Offer("exact", "eip155:84532", "0", "0xUSDC", "0xMerchant")
        solfree == Offer("exact", "solana:devnet", "0", "SoLUSDC", "SoLMerchant")
    IN  {<<>>, <<usdc>>, <<sol, usdc>>, <<usdc, dai>>, <<bad>>, <<neg>>, <<bad, dai>>,
         <<free>>, <<solfree>>}

\* TokenConfig, reduced to its address and priority
TokenConfig(address, priority) == [Address |-> address, Priority |-> priority]

\* a Signer: the network it signs for, its priority, its tokens, its per-call limit
\* (NoValue for nil) and whether its signing step fails
Signer(network, priority, tokens, maxAmount, signFails) ==
    [network |-> network, priority |-> priority, tokens |-> tokens,
     maxAmount |-> maxAmount, signFails |-> signFails]

\* the signer lists a client may be configured with
SignerLists ==
    LET usdc == <<TokenConfig("0xusdc", 1)>>
        dai == <<TokenConfig("0xdai", 1)>>
        both == <<TokenConfig("0xusdc", 2), TokenConfig("0xdai", 1)>>
        spl == <<TokenConfig("SoLUSDC", 1)>>
    IN  {<<>>,
         <<Signer("eip155:84532", 1, usdc, NoValue, FALSE)>>,
         <<Signer("solana:devnet", 1, spl, NoValue, FALSE)>>,
         <<Signer("eip155:84532", 1, usdc, NoValue, TRUE)>>,
         <<Signer("eip155:84532", 1, dai, NoValue, FALSE)>>,
         <<Signer("eip155:84532", 1, both, NoValue, FALSE)>>,
         <<Signer("eip155:84532", 1, usdc \o dai, NoValue, FALSE)>>,
         <<Signer("eip155:84532", 1, usdc \o dai, <<500000>>, FALSE)>>,
         <<Signer("eip155:84532", 1, usdc, NoValue, FALSE),
           Signer("solana:devnet", 1, spl, NoValue, FALSE)>>,
         <<Signer("eip155:84532", 2, usdc, NoValue, FALSE),
           Signer("solana:devnet", 1, spl, NoValue, FALSE)>>}

\* the signer is the Solana signer (v2/signers/svm), not the EVM one
IsSVM(signer) == signer.network = "solana:devnet"

\* Signer.CanSign: the scheme is exact, the network is the signer's, and the asset is
\* one of its tokens, compared without case by the EVM signer and exactly by the
\* Solana signer
CanSign(signer, req) ==
    /\ req.scheme = "exact"
    /\ req.network = signer.network
    /\ \E t \in 1..Len(signer.tokens) :
          IF IsSVM(signer) THEN signer.tokens[t].Address = req.asset
          ELSE EqualFold(signer.tokens[t].Address, req.asset)

\* the payload Signer.Sign returns: x402Version 2 and the requirement it accepted
SignedPayload(req) ==
    [x402Version |-> X402Version, scheme |-> req.scheme, network |-> req.network,
     amount |-> req.amount, asset |-> req.asset, payTo |-> req.payTo]

NoPayload == [x402Version |-> 0, scheme |-> "", network |-> "", amount |-> "",
              asset |-> "", payTo |-> ""]

\* Signer.Sign of the EVM signer and of the Solana signer; the latter also refuses
\* an amount that is not positive
Sign(signer, req) ==
    IF ~CanSign(signer, req) THEN [err |-> "NoValidSigner", payment |-> NoPayload]
    ELSE IF ~SetString(req.amount).ok THEN [err |-> "InvalidAmount", payment |-> NoPayload]
    ELSE IF IsSVM(signer) /\ SetString(req.amount).value <= 0
         THEN [err |-> "InvalidAmount", payment |-> NoPayload]
    ELSE IF signer.maxAmount # NoValue /\ SetString(req.amount).value > signer.maxAmount[1]
         THEN [err |-> "AmountExceeded", payment |-> NoPayload]
    ELSE IF signer.signFails THEN [err |-> "signature", payment |-> NoPayload]
    ELSE [err |-> "", payment |-> SignedPayload(req)]

\* the priority of the signer's first token that is the requirement's asset, 0 if none
TokenPriority(signer, req) ==
    LET matching == {t \in 1..Len(signer.tokens) :
                        EqualFold(signer.tokens[t].Address, req.asset)}
    IN  IF matching = {} THEN 0
        ELSE signer.tokens[CHOOSE t \in matching : \A u \in matching : t <= u].Priority

\* a candidate set built without looking at the signers' limits
CandidatesIgnoringMaxAmount(signers, requirements) ==
    {c \in (1..Len(signers)) \X (1..Len(requirements)) :
        /\ SetString(requirements[c[2]].amount).ok
        /\ CanSign(signers[c[1]], requirements[c[2]])}

\* allCandidates of SelectAndSign: the pairs <<signer index, requirement index>> of a
\* requirement with a parseable amount and a signer that can sign it within its limit
Candidates(signers, requirements) ==
    {c \in (1..Len(signers)) \X (1..Len(requirements)) :
        /\ SetString(requirements[c[2]].amount).ok
        /\ CanSign(signers[c[1]], requirements[c[2]])
        /\ \/ signers[c[1]].maxAmount = NoValue
           \/ SetString(requirements[c[2]].amount).value <= signers[c[1]].maxAmount[1]}

\* a comparison by the two priorities only, without the tie-breaks by position
LessByPriorityOnly(signers, requirements, c, d) ==
    LET sp(x) == signers[x[1]].priority
        tp(x) == TokenPriority(signers[x[1]], requirements[x[2]])
    IN  IF sp(c) # sp(d) THEN sp(c) < sp(d)
        ELSE tp(c) < tp(d)

\* the less function SelectAndSign hands to sort.Slice
Less(signers, requirements, c, d) ==
    LET sp(x) == signers[x[1]].priority
        tp(x) == TokenPriority(signers[x[1]], requirements[x[2]])
    IN  IF sp(c) # sp(d) THEN sp(c) < sp(d)
        ELSE IF tp(c) # tp(d) THEN tp(c) < tp(d)
        ELSE IF c[1] # d[1] THEN c[1] < d[1]
        ELSE c[2] < d[2]

NoCandidate == <<0, 0>>

\* the candidates sort.Slice may leave at index 0: those no other candidate is less
\* than (sort.Slice is not stable; candidates that compare equal come in any order)
SortedFirst(signers, requirements) ==
    LET all == Candidates(signers, requirements)
    IN  IF Len(signers) = 0 \/ all = {} THEN {NoCandidate}
        ELSE {c \in all : \A d \in all : ~Less(signers, requirements, d, c)}

\* a selector that, finding no candidate, tries the first signer on the first
\* requirement instead of giving up
SelectAndSignTryingFirstSigner(signers, requirements, first) ==
    LET hasValidRequirement ==
            \E r \in 1..Len(requirements) : SetString(requirements[r].amount).ok
        failed(err) == [err |-> err, payment |-> NoPayload, selected |-> NoCandidate,
                        signed |-> <<>>, signErr |-> ""]
        chosen == IF Candidates(signers, requirements) = {} THEN <<1, 1>> ELSE first
        signature == Sign(signers[chosen[1]], requirements[chosen[2]])
    IN  IF Len(signers) = 0 THEN failed("NoValidSigner")
        ELSE IF Len(requirements) = 0 THEN failed("InvalidRequirements")
        ELSE IF ~hasValidRequirement THEN failed("InvalidRequirements")
        ELSE IF signature.err # ""
             THEN [err |-> "SigningFailed", payment |-> NoPayload, selected |-> chosen,
                   signed |-> <<chosen>>, signErr |-> signature.err]
        ELSE [err |-> "", payment |-> signature.payment, selected |-> chosen,
              signed |-> <<chosen>>, signErr |-> ""]

\* DefaultPaymentSelector.SelectAndSign, first being the candidate at index 0 after the
\* sort; signed lists the <<signer, requirement>> pairs Sign was called for
SelectAndSign(signers, requirements, first) ==
    LET hasValidRequirement ==
            \E r \in 1..Len(requirements) : SetString(requirements[r].amount).ok
        failed(err) == [err |-> err, payment |-> NoPayload, selected |-> NoCandidate,
                        signed |-> <<>>, signErr |-> ""]
        signature == Sign(signers[first[1]], requirements[first[2]])
    IN  IF Len(signers) = 0 THEN failed("NoValidSigner")
        ELSE IF Len(requirements) = 0 THEN failed("InvalidRequirements")
        ELSE IF ~hasValidRequirement THEN failed("InvalidRequirements")
        ELSE IF Candidates(signers, requirements) = {} THEN failed("NoValidSigner")
        ELSE IF signature.err # ""
             THEN [err |-> "SigningFailed", payment |-> NoPayload, selected |-> first,
                   signed |-> <<first>>, signErr |-> signature.err]
        ELSE [err |-> "", payment |-> signature.payment, selected |-> first,
              signed |-> <<first>>, signErr |-> ""]

\* an HTTP response as the base RoundTripper returns it (err = TRUE: no response)
HTTPResponse(err, status, body, xPaymentResponse) ==
    [err |-> err, status |-> status, body |-> body, xPaymentResponse |-> xPaymentResponse]

HTTPResponses ==
    {HTTPResponse(TRUE, 0, NoValue, NoValue),
     HTTPResponse(FALSE, 200, <<HandlerBytes>>, NoValue),
     HTTPResponse(FALSE, 200, <<HandlerBytes>>,
                  <<EncodeSettlement(SettleResponse(TRUE, "", "0xabc", "eip155:84532",
                                                    "0xPayer"))>>),
     HTTPResponse(FALSE, 500, <<HandlerBytes>>, NoValue),
     HTTPResponse(FALSE, 402, <<Chunk("middleware", "text", 0, "Payment required", <<>>)>>,
                  NoValue),
     HTTPResponse(FALSE, 402,
                  <<Chunk("middleware", "PaymentRequired", 1, "Payment required",
                          <<Offer("exact", "eip155:84532", "1000000", "0xUSDC",
                                  "0xMerchant")>>)>>,
                  NoValue)}
    \cup {HTTPResponse(FALSE, 402,
                       <<Chunk("middleware", "PaymentRequired", X402Version,
                               "Payment required", a)>>,
                       NoValue) : a \in OfferedAccepts}

\* a JSON-RPC response as the base MCP transport returns it: code is the error's code,
\* 0 for a result; data is the error's data
RPCResponse(err, code, data) == [err |-> err, code |-> code, data |-> data]

RPCResponses ==
    {RPCResponse(TRUE, 0, NoValue),
     RPCResponse(FALSE, 0, NoValue),
     RPCResponse(FALSE, -32603, NoValue),
     RPCResponse(FALSE, 402, NoValue),
     RPCResponse(FALSE, 402,
                 <<[x402Version |-> 1,
                    accepts |-> <<Offer("exact", "eip155:84532", "1000000", "0xUSDC",
                                        "0xMerchant")>>]>>)}
    \cup {RPCResponse(FALSE, 402, <<[x402Version |-> X402Version, accepts |-> a]>>) :
             a \in OfferedAccepts}

NoResult == [returned |-> FALSE, resp |-> NoValue, err |-> ""]

\* what the call returns to its caller: a response (NoValue for nil) and an error
Result(resp, err) == [returned |-> TRUE, resp |-> resp, err |-> err]

\* a PaymentEvent: its type and the payment data it carries
PaymentEvent(type, network, scheme, amount, asset, recipient) ==
    [type |-> type, network |-> network, scheme |-> scheme, amount |-> amount,
     asset |-> asset, recipient |-> recipient]

\* no SelectAndSign call was made
NoSelection ==
    [called |-> FALSE, accepts |-> <<>>, err |-> "", selected |-> NoCandidate,
     signed |-> <<>>, signErr |-> "", matched |-> 0]

\* the SelectAndSign call made during the call: what it was given, what it
\* returned, and the requirement the transport then took for the selected one
Selection(accepts, r, matched) ==
    [called |-> TRUE, accepts |-> accepts, err |-> r.err, selected |-> r.selected,
     signed |-> r.signed, signErr |-> r.signErr, matched |-> matched]

\* the request the caller hands to the transport: method, URL, headers other than
\* X-PAYMENT, and the body still unread in its Body reader (NoValue: none, or all
\* of it read)
Request(method, url, header, body) ==
    [method |-> method, url |-> url, header |-> header, body |-> body]

\* the requests a caller makes through the HTTP transport
CallerRequests ==
    {Request("GET", "https://api.example.com/resource", {"Accept"}, NoValue),
     Request("POST", "https://api.example.com/resource", {"Accept", "Content-Type"},
             <<"order">>)}

NewClient(kind, signers) ==
    [kind |-> kind, signers |-> signers, pc |-> "start", requests |-> <<>>,
     responses |-> <<>>, payment |-> NoValue, events |-> <<>>, result |-> NoResult,
     selection |-> NoSelection,
     req |-> Request("POST", "https://api.example.com/resource", {"Accept"}, <<"params">>)]

\* the client is not in use
IdleClient == NewClient("none", <<>>)

\* helpers.ParsePaymentRequirements: decode the 402 body; no requirement is an error
ParsePaymentRequirements(resp) ==
    IF resp.body[1].kind # "PaymentRequired" THEN [err |-> "decode", accepts |-> <<>>]
    ELSE IF Len(resp.body[1].accepts) = 0 THEN [err |-> "empty", accepts |-> <<>>]
    ELSE [err |-> "", accepts |-> resp.body[1].accepts]

\* helpers.ParseSettlement
ParseSettlement(headerValue) ==
    IF headerValue = NoValue THEN NoValue
    ELSE IF ~DecodeSettlement(headerValue[1]).ok THEN NoValue
    ELSE <<DecodeSettlement(headerValue[1]).settlement>>

\* the call ends and returns
Return(c, resp, err) == [c EXCEPT !.pc = "done", !.result = Result(resp, err)]

\* one request handed to the base transport, and what came back. The HTTP transport
\* sends req.Clone(ctx), which shares the caller's Body reader: sending reads the
\* body out of it. The MCP transport sends the JSON-RPC request value itself
Exchange(c, payment, resp) ==
    [c EXCEPT !.requests = Append(@, [method |-> c.req.method, url |-> c.req.url,
                                      header |-> c.req.header, payment |-> payment,
                                      body |-> c.req.body]),
              !.responses = Append(@, resp),
              !.req.body = IF c.kind = "http" THEN NoValue ELSE @]

\* one more event handed to the callbacks
Emit(c, event) == [c EXCEPT !.events = Append(@, event)]

\* an event that carries no payment data
BareEvent(type) == PaymentEvent(type, "", "", "", "", "")

\* the variables of the server side
server == <<variant, config, request, pc, interceptor, w, facilitator, handler, recorder>>

\* X402Transport.RoundTrip up to the retry: the first attempt, and on a 402 the
\* parsing of the requirements and the signing of a payment; o is the response
RoundTrip(o) ==
    LET c1 == Exchange(client, NoValue, o)
        paymentReq == ParsePaymentRequirements(o)
        afterSelection(first) ==
            LET r == SelectAndSign(client.signers, paymentReq.accepts, first)
                selectedRequirement == FindMatchingRequirement(r.payment, paymentReq.accepts)
                c2 == [c1 EXCEPT !.selection =
                          Selection(paymentReq.accepts, r, selectedRequirement)]
                req == paymentReq.accepts[selectedRequirement]
            IN  IF r.err # "" THEN Return(c2, NoValue, r.err)
                ELSE [(IF selectedRequirement # 0
                       THEN Emit(c2, PaymentEvent("attempt", r.payment.network,
                                                  r.payment.scheme, req.amount, req.asset,
                                                  req.payTo))
                       ELSE c2)
                      EXCEPT !.pc = "retry", !.payment = <<EncodePayment(r.payment)>>]
    IN  /\ client.kind = "http"
        /\ client.pc = "start"
        /\ IF o.err THEN client' = Return(c1, NoValue, "transport")
           ELSE IF o.status # 402 THEN client' = Return(c1, <<o>>, "")
           ELSE IF paymentReq.err # ""
           THEN client' = Return(c1, NoValue, "InvalidRequirements")
           ELSE \E first \in SortedFirst(client.signers, paymentReq.accepts) :
                    client' = afterSelection(first)
        /\ UNCHANGED <<enrich, call, server>>

\* a retry that pays again when the paid request is answered with another 402
RoundTripRetryAgainOn402(o) ==
    LET c1 == Exchange(client, client.payment, o)
    IN  /\ client.kind = "http"
        /\ client.pc = "retry"
        /\ Len(client.requests) < 4
        /\ client' =
              IF o.err THEN Return(c1, NoValue, "transport")
              ELSE IF o.status = 402 THEN c1
              ELSE Return(c1, <<o>>, "")
        /\ UNCHANGED <<enrich, call, server>>

\* X402Transport.RoundTrip from the retry on: the request goes out again with
\* X-PAYMENT, and whatever comes back is returned
RoundTripRetry(o) ==
    LET c1 == Exchange(client, client.payment, o)
        settlement == ParseSettlement(o.xPaymentResponse)
        selectedRequirement == client.selection.matched
        req == client.selection.accepts[selectedRequirement]
        success == IF selectedRequirement # 0
                   THEN PaymentEvent("success", req.network, req.scheme, req.amount,
                                     req.asset, req.payTo)
                   ELSE BareEvent("success")
    IN  /\ client.kind = "http"
        /\ client.pc = "retry"
        /\ client' =
              IF o.err
              THEN Return(Emit(c1, BareEvent("failure")), NoValue, "transport")
              ELSE IF settlement # NoValue /\ settlement[1].success
              THEN Return(Emit(c1, success), <<o>>, "")
              ELSE Return(c1, <<o>>, "")
        /\ UNCHANGED <<enrich, call, server>>

\* Transport.extractPaymentRequirements
extractPaymentRequirements(data) ==
    IF data = NoValue THEN [err |-> "NoPaymentRequirements", accepts |-> <<>>]
    ELSE IF data[1].x402Version # X402Version
         THEN [err |-> "version", accepts |-> <<>>]
    ELSE IF Len(data[1].accepts) = 0
         THEN [err |-> "NoPaymentRequirements", accepts |-> <<>>]
    ELSE [err |-> "", accepts |-> data[1].accepts]

\* Transport.createPayment, first being the candidate at index 0 after the sort
createPayment(c, requirements, first) ==
    LET r == SelectAndSign(c.signers, requirements, first)
        selectedReq == FindMatchingRequirement(r.payment, requirements)
        c2 == [c EXCEPT !.selection = Selection(requirements, r, selectedReq)]
        req == requirements[selectedReq]
    IN  IF Len(c.signers) = 0 THEN [err |-> "NoValidSigner", c |-> c, payment |-> NoPayload]
        ELSE IF r.err # ""
             THEN [err |-> r.err, c |-> Emit(c2, BareEvent("failure")),
                   payment |-> NoPayload]
        ELSE [err |-> "", payment |-> r.payment,
              c |-> IF selectedReq # 0
                    THEN Emit(c2, PaymentEvent("attempt", req.network, req.scheme,
                                               req.amount, req.asset, req.payTo))
                    ELSE c2]

\* Transport.SendRequest up to the retry; o is the response to the first request
SendRequest(o) ==
    LET c1 == Exchange(client, NoValue, o)
        requirements == extractPaymentRequirements(o.data)
        afterPayment(first) ==
            LET p == createPayment(c1, requirements.accepts, first)
            IN  IF p.err # "" THEN Return(p.c, <<o>>, p.err)
                ELSE [p.c EXCEPT !.pc = "retry", !.payment = <<p.payment>>]
    IN  /\ client.kind = "mcp"
        /\ client.pc = "start"
        /\ IF o.err THEN client' = Return(c1, NoValue, "transport")
           ELSE IF o.code # 402 THEN client' = Return(c1, <<o>>, "")
           ELSE IF requirements.err # ""
           THEN client' = Return(c1, <<o>>, requirements.err)
           ELSE \E first \in SortedFirst(client.signers, requirements.accepts) :
                    client' = afterPayment(first)
        /\ UNCHANGED <<enrich, call, server>>

\* Transport.retryWithPayment: the request goes out again with the payment under
\* params._meta, and whatever comes back is returned
retryWithPayment(o) ==
    LET c1 == Exchange(client, client.payment, o)
        accepted == client.payment[1]
        outcome(type) == PaymentEvent(type, accepted.network, accepted.scheme, "", "", "")
    IN  /\ client.kind = "mcp"
        /\ client.pc = "retry"
        /\ client' =
              IF o.err
              THEN Return(Emit(c1, outcome("failure")), NoValue, "transport")
              ELSE IF o.code = 402
              THEN Return(Emit(c1, outcome("failure")), <<o>>, "")
              ELSE IF o.code # 0 THEN Return(c1, <<o>>, "")
              ELSE Return(Emit(c1, outcome("success")), <<o>>, "")
        /\ UNCHANGED <<enrich, call, server>>

----------------------------------------------------------------------------
(* The facilitator client (v2/http FacilitatorClient): one Verify or Settle call  *)
(* and its attempts                                                                *)

\* the largest MaxRetries a client is configured with
MaxRetriesBound == 2

\* the RetryDelay values a client is configured with, in milliseconds (0: unset)
RetryDelays == {0, 250}

Min(a, b) == IF a <= b THEN a ELSE b

\* FacilitatorClient.retryConfig
retryConfig(c) ==
    LET retryDelay == IF c.RetryDelay <= 0 THEN 100 ELSE c.RetryDelay
        maxRetries == IF c.MaxRetries < 0 THEN 0 ELSE c.MaxRetries
    IN  [MaxAttempts |-> maxRetries + 1, InitialDelay |-> retryDelay,
         MaxDelay |-> retryDelay * 4, Multiplier |-> 2]

\* what one request to the facilitator comes to: no response at all (err), or a
\* response with a status and a body that decodes or does not
FacilitatorReply(err, status, decodes) ==
    [err |-> err, status |-> status, decodes |-> decodes]

FacilitatorReplies ==
    {FacilitatorReply(TRUE, 0, FALSE),
     FacilitatorReply(FALSE, 200, TRUE),
     FacilitatorReply(FALSE, 200, FALSE),
     FacilitatorReply(FALSE, 400, TRUE),
     FacilitatorReply(FALSE, 500, TRUE),
     FacilitatorReply(FALSE, 500, FALSE)}

\* parseErrorResponse: the error wraps baseErr, whatever the status and the body
parseErrorResponse(resp, baseErr) == baseErr

\* an error function that files a 5xx answer under the availability failures
attemptErrorUnavailableOn5xx(op, reply) ==
    IF reply.err THEN "FacilitatorUnavailable"
    ELSE IF reply.status >= 500 THEN "FacilitatorUnavailable"
    ELSE IF reply.status # 200
         THEN parseErrorResponse(reply, IF op = "verify" THEN "VerificationFailed"
                                        ELSE "SettlementFailed")
    ELSE IF ~reply.decodes THEN "decode"
    ELSE ""

\* the error the closure handed to retry.WithRetry returns for one request ("" for
\* nil); the sentinel the error wraps stands for the error
attemptError(op, reply) ==
    IF reply.err THEN "FacilitatorUnavailable"
    ELSE IF reply.status # 200
         THEN parseErrorResponse(reply, IF op = "verify" THEN "VerificationFailed"
                                        ELSE "SettlementFailed")
    ELSE IF ~reply.decodes THEN "decode"
    ELSE ""

\* isFacilitatorUnavailableError: errors.Is(err, ErrFacilitatorUnavailable)
isFacilitatorUnavailableError(err) == err = "FacilitatorUnavailable"

\* a FacilitatorClient with its retry policy, before a call; beforeHook tells whether
\* an OnBefore hook is set and refuses the call
NewCall(maxRetries, retryDelay, beforeHook) ==
    [MaxRetries |-> maxRetries, RetryDelay |-> retryDelay, beforeHook |-> beforeHook,
     builtBy |-> "caller", op |-> "", pc |-> "idle", replies |-> <<>>, waits |-> <<>>,
     delay |-> 0, after |-> <<>>, result |-> NoResult]

\* the facilitator client NewX402Middleware builds (v2/http and v2/http/gin): the
\* Config has no retry setting, MaxRetries and RetryDelay keep their zero values
NewX402MiddlewareFacilitator(builtBy, beforeHook) ==
    [NewCall(0, 0, beforeHook) EXCEPT !.builtBy = builtBy]

\* the facilitator client NewHTTPFacilitator builds for the MCP server: no option
\* sets a retry count, MaxRetries is 2
NewHTTPFacilitator(beforeHook) ==
    [NewCall(2, 0, beforeHook) EXCEPT !.builtBy = "mcp"]

\* the facilitator client is not in use
IdleCall == [NewCall(0, 0, FALSE) EXCEPT !.pc = "done"]

\* the OnAfterVerify / OnAfterSettle hook is called with the response and the error
\* retry.WithRetry returned; attempts is the number of requests made by then
OnAfter(c, resp, err) ==
    [c EXCEPT !.after = Append(@, [resp |-> resp, err |-> err,
                                   attempts |-> Len(c.replies)])]

\* retry.WithRetry has returned: the OnAfter hook, then the return to the caller; the
\* response is the decoded reply of the last attempt, nil (NoValue) on an error
CallReturn(c, ok, err) ==
    LET resp == IF ok THEN <<c.replies[Len(c.replies)]>> ELSE NoValue
    IN  [OnAfter(c, resp, err) EXCEPT !.pc = "done", !.result = Result(resp, err)]

\* the payloads a caller may hand to Verify or Settle: Payload and Extra are
\* interface{} values, which json.Marshal encodes or refuses
VerifyPayloads == {"decoded from JSON", "holds a value JSON cannot encode"}

\* json.Marshal(req): whether it succeeds
Marshal(payload) == payload = "decoded from JSON"

\* the start of Verify or Settle: the OnBefore hook, the encoding of the request,
\* then retry.WithRetry is entered
Begin(op, payload) ==
    /\ call.pc = "idle"
    /\ call' = IF call.beforeHook
               THEN [call EXCEPT !.op = op, !.pc = "done", !.result = Result(NoValue, "hook")]
               ELSE IF ~Marshal(payload)
               THEN [call EXCEPT !.op = op, !.pc = "done",
                                 !.result = Result(NoValue, "marshal")]
               ELSE [call EXCEPT !.op = op, !.pc = "attempt",
                                 !.delay = retryConfig(call).InitialDelay]
    /\ UNCHANGED <<enrich, client, server>>

\* FacilitatorClient.Verify, up to the first attempt
Verify(payload) == Begin("verify", payload)

\* FacilitatorClient.Settle, up to the first attempt
Settle(payload) == Begin("settle", payload)

\* one turn of retry.WithRetry: the closure sends the request and reads the reply;
\* the call returns on success, on an error that is not retryable, and when the
\* attempts are used up; otherwise it goes on to wait
Attempt(reply) ==
    LET c1 == [call EXCEPT !.replies = Append(@, reply)]
        err == attemptError(call.op, reply)
    IN  /\ call.pc = "attempt"
        /\ call' = IF err = "" THEN CallReturn(c1, TRUE, "")
                   ELSE IF ~isFacilitatorUnavailableError(err) THEN CallReturn(c1, FALSE, err)
                   ELSE IF Len(c1.replies) >= retryConfig(call).MaxAttempts
                        THEN CallReturn(c1, FALSE, err)
                   ELSE [c1 EXCEPT !.pc = "wait"]
        /\ UNCHANGED <<enrich, client, server>>

\* the wait of retry.WithRetry between two attempts: the delay passes and doubles up
\* to MaxDelay, or the caller's context is done first and the call returns
Backoff(cancelled) ==
    /\ call.pc = "wait"
    /\ call' = IF cancelled THEN CallReturn(call, FALSE, "context")
               ELSE [call EXCEPT !.pc = "attempt", !.waits = Append(@, call.delay),
                                 !.delay = Min(call.delay * retryConfig(call).Multiplier,
                                               retryConfig(call).MaxDelay)]
    /\ UNCHANGED <<enrich, client, server>>

----------------------------------------------------------------------------
(* FacilitatorClient.Supported and FacilitatorClient.EnrichRequirements, with the *)
(* Extra maps of the requirements as the shared objects they are in Go            *)

\* the keys an Extra map may hold
ExtraKeys == {"feePayer", "name"}

\* the content of a map: for each key its value, NoValue for a key that is not in it
MapOf(feePayer, name) == [feePayer |-> feePayer, name |-> name]

EmptyMap == MapOf(NoValue, NoValue)

\* the nil map
NilMap == 0

\* a PaymentRequirements with its Extra field: the map it refers to (NilMap for nil)
RequirementWithExtra(scheme, network, Extra) ==
    [scheme |-> scheme, network |-> network, Extra |-> Extra]

\* a SupportedKind; Extra is NoValue for nil, otherwise the content
SupportedKind(scheme, network, Extra) ==
    [Scheme |-> scheme, Network |-> network, Extra |-> Extra]

\* what the GET /supported comes to: err is "" with the kinds of the response, or
\* names the failure
SupportedOutcome(err, kinds) == [err |-> err, kinds |-> kinds]

SupportedOutcomes ==
    LET sol(extra) == SupportedKind("exact", "solana:devnet", extra)
        evm(extra) == SupportedKind("exact", "eip155:84532", extra)
        payer == <<MapOf(<<"FacPayer">>, NoValue)>>
        named == <<MapOf(<<"FacPayer">>, <<"USDC">>)>>
    IN  {SupportedOutcome("FacilitatorUnavailable", <<>>),
         SupportedOutcome("status", <<>>),
         SupportedOutcome("decode", <<>>)}
        \cup {SupportedOutcome("", kinds) :
                 kinds \in {<<>>, <<sol(NoValue)>>, <<sol(payer)>>, <<sol(<<EmptyMap>>)>>,
                            <<evm(named)>>, <<sol(payer), evm(named)>>,
                            <<sol(payer), sol(named)>>}}

\* FacilitatorClient.Supported
Supported(o) == o

\* the lookup EnrichRequirements builds: index of the kind stored under the key
\* network-scheme, a later kind replacing an earlier one; 0 when there is none
supportedMap(kinds, network, scheme) ==
    LET found == {k \in 1..Len(kinds) :
                     kinds[k].Network = network /\ kinds[k].Scheme = scheme}
    IN  IF found = {} THEN 0 ELSE CHOOSE k \in found : \A j \in found : j <= k

\* the loop of EnrichRequirements from requirement i on: heap holds the content of
\* every map, enriched the copies made so far
RECURSIVE EnrichFrom(_, _, _, _, _)
EnrichFrom(i, requirements, kinds, heap, enriched) ==
    IF i > Len(requirements) THEN [heap |-> heap, enriched |-> enriched]
    ELSE LET req == requirements[i]
             k == supportedMap(kinds, req.network, req.scheme)
         IN  IF k = 0 \/ kinds[k].Extra = NoValue
             THEN EnrichFrom(i + 1, requirements, kinds, heap, Append(enriched, req))
             ELSE LET made == req.Extra = NilMap
                      heap1 == IF made THEN Append(heap, EmptyMap) ELSE heap
                      m == IF made THEN Len(heap1) ELSE req.Extra
                      merged == [key \in ExtraKeys |->
                                    IF heap1[m][key] = NoValue
                                    THEN kinds[k].Extra[1][key]
                                    ELSE heap1[m][key]]
                  IN  EnrichFrom(i + 1, requirements, kinds,
                                 [heap1 EXCEPT ![m] = merged],
                                 Append(enriched, [req EXCEPT !.Extra = m]))

\* what the caller hands to EnrichRequirements: its requirement list and the maps
\* the Extra fields refer to (requirement i refers to map i, or to none)
EnrichInput(requirements, heap) ==
    [requirements |-> requirements, heap |-> heap, maps |-> heap, pc |-> "start",
     supported |-> SupportedOutcome("", <<>>),
     result |-> [returned |-> FALSE, list |-> <<>>, err |-> ""]]

EnrichInputs ==
    LET networks == {"solana:devnet", "eip155:84532"}
        extras == {NoValue, <<EmptyMap>>, <<MapOf(<<"UserPayer">>, NoValue)>>}
        one == {<<[network |-> n, extra |-> e]>> : n \in networks, e \in extras}
        two == {<<[network |-> "solana:devnet", extra |-> e1],
                  [network |-> "eip155:84532", extra |-> e2]>> : e1, e2 \in extras}
        build(list) ==
            EnrichInput([i \in 1..Len(list) |->
                            RequirementWithExtra("exact", list[i].network,
                                                 IF list[i].extra = NoValue THEN NilMap
                                                 ELSE i)],
                        [i \in 1..Len(list) |->
                            IF list[i].extra = NoValue THEN EmptyMap ELSE list[i].extra[1]])
    IN  {build(list) : list \in one \cup two}

\* no EnrichRequirements call is under way
IdleEnrich == [EnrichInput(<<>>, <<>>) EXCEPT !.pc = "done"]

\* FacilitatorClient.EnrichRequirements, o being what GET /supported comes to
EnrichRequirementsCall(o) ==
    LET supported == Supported(o)
        out == EnrichFrom(1, enrich.requirements, supported.kinds, enrich.maps, <<>>)
    IN  /\ enrich.pc = "start"
        /\ enrich' =
              IF supported.err # ""
              THEN [enrich EXCEPT !.pc = "done", !.supported = o,
                                  !.result = [returned |-> TRUE,
                                              list |-> enrich.requirements,
                                              err |-> supported.err]]
              ELSE [enrich EXCEPT !.pc = "done", !.supported = o, !.maps = out.heap,
                                  !.result = [returned |-> TRUE, list |-> out.enriched,
                                              err |-> ""]]
        /\ UNCHANGED <<call, client, server>>

----------------------------------------------------------------------------
(* One request, from arrival to the completed response *)

\* Resource.URL of the configuration: left empty, or given
ResourceURLs == {"", "https://api.example.com/resource"}

Configs ==
    [VerifyOnly : BOOLEAN, fallback : BOOLEAN, requirements : RequirementLists,
     resource : ResourceURLs]

Init ==
    /\ variant \in {"http", "gin", "mcp"}
    /\ config \in Configs
    /\ request \in IF variant \in {"http", "gin"} THEN [header : PaymentHeaders] ELSE MCPRequests
    /\ pc = "start"
    /\ interceptor = NewInterceptor
    /\ w = NewResponseWriter
    /\ facilitator = NewFacilitatorLog
    /\ handler = NewHandler
    /\ recorder = NewRecorder
    /\ client = IdleClient
    /\ call = IdleCall
    /\ enrich = IdleEnrich

Next ==
    \/ \E o1, o2 \in VerifyOutcomes : Middleware(o1, o2)
    \/ \E s \in HandlerStatuses, o1, o2 \in SettleOutcomes : HandlerWriteHeader(s, o1, o2)
    \/ \E o1, o2 \in SettleOutcomes : HandlerWrite(o1, o2)
    \/ HandlerFlush
    \/ \E o1, o2 \in SettleOutcomes : HandlerHijack(o1, o2)
    \/ HandlerSetHeader
    \/ HandlerReturn
    \/ \E v1, v2 \in VerifyOutcomes, s1, s2 \in SettleOutcomes : GinMiddleware(v1, v2, s1, s2)
    \/ \E s \in HandlerStatuses : GinHandlerStatus(s)
    \/ GinHandlerWrite
    \/ GinHandlerReturn
    \/ \E o1, o2 \in VerifyOutcomes : ServeHTTP(o1, o2)
    \/ \E s \in HandlerStatuses : ToolWriteHeader(s)
    \/ \E k \in ToolOutputs : ToolWrite(k)
    \/ ToolSetHeader
    \/ \E o1, o2 \in SettleOutcomes : ToolReturn(o1, o2)

Spec == Init /\ [][Next]_vars

----------------------------------------------------------------------------
(* One call through an auto-pay transport *)

ClientInit ==
    /\ client \in {NewClient("mcp", sg) : sg \in SignerLists}
                  \cup {[NewClient("http", sg) EXCEPT !.req = r] :
                           sg \in SignerLists, r \in CallerRequests}
    /\ variant = "none"
    /\ config = [VerifyOnly |-> FALSE, fallback |-> FALSE,
                 requirements |-> <<Requirement("exact", "eip155:84532")>>,
                 resource |-> ""]
    /\ request = [header |-> NoValue]
    /\ pc = "done"
    /\ interceptor = NewInterceptor
    /\ w = NewResponseWriter
    /\ facilitator = NewFacilitatorLog
    /\ handler = NewHandler
    /\ recorder = NewRecorder
    /\ call = IdleCall
    /\ enrich = IdleEnrich

ClientNext ==
    \/ \E o \in HTTPResponses : RoundTrip(o)
    \/ \E o \in HTTPResponses : RoundTripRetry(o)
    \/ \E o \in RPCResponses : SendRequest(o)
    \/ \E o \in RPCResponses : retryWithPayment(o)

ClientSpec == ClientInit /\ [][ClientNext]_vars

\* a facilitator client on its own: one Verify or Settle call under every retry
\* policy, the facilitator answering each request in every way
FacilitatorInit ==
    /\ call \in {NewCall(m, d, h) :
                    m \in (0 - 1)..MaxRetriesBound, d \in RetryDelays, h \in BOOLEAN}
                \cup {NewX402MiddlewareFacilitator(v, h) :
                         v \in {"http", "gin"}, h \in BOOLEAN}
                \cup {NewHTTPFacilitator(h) : h \in BOOLEAN}
    /\ client = IdleClient
    /\ enrich = IdleEnrich
    /\ variant = "none"
    /\ config = [VerifyOnly |-> FALSE, fallback |-> FALSE,
                 requirements |-> <<Requirement("exact", "eip155:84532")>>,
                 resource |-> ""]
    /\ request = [header |-> NoValue]
    /\ pc = "done"
    /\ interceptor = NewInterceptor
    /\ w = NewResponseWriter
    /\ facilitator = NewFacilitatorLog
    /\ handler = NewHandler
    /\ recorder = NewRecorder

FacilitatorNext ==
    \/ \E payload \in VerifyPayloads : Verify(payload)
    \/ \E payload \in VerifyPayloads : Settle(payload)
    \/ \E reply \in FacilitatorReplies : Attempt(reply)
    \/ \E cancelled \in BOOLEAN : Backoff(cancelled)

FacilitatorSpec == FacilitatorInit /\ [][FacilitatorNext]_vars

\* EnrichRequirements on its own: every caller's list, /supported answering in
\* every way
EnrichInit ==
    /\ enrich \in EnrichInputs
    /\ call = IdleCall
    /\ client = IdleClient
    /\ variant = "none"
    /\ config = [VerifyOnly |-> FALSE, fallback |-> FALSE,
                 requirements |-> <<Requirement("exact", "eip155:84532")>>,
                 resource |-> ""]
    /\ request = [header |-> NoValue]
    /\ pc = "done"
    /\ interceptor = NewInterceptor
    /\ w = NewResponseWriter
    /\ facilitator = NewFacilitatorLog
    /\ handler = NewHandler
    /\ recorder = NewRecorder

EnrichNext == \E o \in SupportedOutcomes : EnrichRequirementsCall(o)

EnrichSpec == EnrichInit /\ [][EnrichNext]_vars

----------------------------------------------------------------------------
(* What the client and the facilitators see *)

\* Settle requests made to the facilitators for this request
SettleCalls == facilitator.settleCalls["primary"] + facilitator.settleCalls["fallback"]

\* a Settle call was made and its final answer was success = true
SettleSucceeded ==
    /\ SettleCalls > 0
    /\ facilitator.settle.err = ""
    /\ facilitator.settle.resp.success

\* a Settle call was made and its final answer was an error or success = false
SettleFailed == SettleCalls > 0 /\ ~SettleSucceeded

\* the first commit on the interceptor was a status below 400 (an explicit
\* WriteHeader, or the 200 a first Write implies)
CommittedSuccess == interceptor.committed /\ interceptor.commitStatus \in 1..399

\* the first commit on the interceptor was a status of 400 or more
CommittedFailure == interceptor.committed /\ interceptor.commitStatus >= 400

\* bytes of the handler's body are in the response
HandlerBytesSent == \E k \in 1..Len(w.body) : w.body[k].from = "handler"

\* the X-PAYMENT-RESPONSE header the client receives, NoValue when there is none
ClientPaymentResponse == w.sent.XPaymentResponse

\* the verify answer the gate acted on said isValid = true
VerifiedValid == facilitator.verify.err = "" /\ facilitator.verify.isValid

\* the request addresses something that is behind the payment gate
Protected ==
    \/ variant \in {"http", "gin"}
    \/ /\ variant = "mcp"
       /\ request.method = "POST"
       /\ request.rpc = "tools/call"
       /\ request.paramsOK
       /\ request.tool = PaidTool

----------------------------------------------------------------------------
(* C1..C10 *)

\* C1: in the HTTP middleware, when the first status the handler commits is >= 400,
\* no settle request is made and no X-PAYMENT-RESPONSE header is set or sent.
C1_NoSettleOnHandlerError ==
    (variant = "http" /\ CommittedFailure) =>
        /\ SettleCalls = 0
        /\ facilitator.settleRuns = 0
        /\ w.header.XPaymentResponse = NoValue
        /\ ClientPaymentResponse = NoValue

\* the handler committed 500, went on calling, and returned
C1_Witness ==
    /\ variant = "http"
    /\ ~config.VerifyOnly
    /\ pc = "done"
    /\ interceptor.commitStatus = 500
    /\ w.status = 500
    /\ handler.calls = MaxHandlerCalls

\* C2: when the handler commits a status < 400 and settlement fails, the client
\* response has status 402 or 503 and holds none of the handler's body bytes.
C2_SettleFailureReplacesResponse ==
    (variant = "http" /\ CommittedSuccess /\ SettleFailed) =>
        /\ w.status \in {402, 503}
        /\ ~HandlerBytesSent

\* the status line on the wire is the handler's own (the gate only ever sends 402 or
\* 503 once the handler runs), or handler bytes are on the wire
HandlerResponseOnWire ==
    \/ w.wroteHeader /\ w.status \notin {402, 503}
    \/ HandlerBytesSent

\* C3: on a success path with VerifyOnly = false, nothing of the handler's response
\* (status line or body) is on the underlying writer unless settle has returned success.
C3_NothingSentBeforeSettle ==
    (variant = "http" /\ ~config.VerifyOnly /\ CommittedSuccess /\ HandlerResponseOnWire)
        => SettleSucceeded

\* C4: the interceptor's settlement step runs at most once per request, whatever
\* calls the handler makes.
C4_SettleAtMostOnce == facilitator.settleRuns <= 1

\* the settlement step ran on the first call and the handler made more calls after it
C4_Witness ==
    /\ variant = "http"
    /\ facilitator.settleRuns = 1
    /\ handler.conn
    /\ handler.writes >= 1
    /\ pc = "done"

\* C5: with VerifyOnly = false, the completed response carries X-PAYMENT-RESPONSE
\* if and only if settle was invoked and succeeded.
C5_HeaderIffSettled ==
    (variant = "http" /\ ~config.VerifyOnly /\ pc = "done" /\ ~w.hijacked) =>
        (ClientPaymentResponse # NoValue <=> SettleSucceeded)

\* C6: with VerifyOnly = true no settle request reaches any facilitator, in the
\* HTTP middleware and in the MCP handler.
C6_VerifyOnlyNeverSettles ==
    config.VerifyOnly =>
        /\ facilitator.settleCalls["primary"] = 0
        /\ facilitator.settleCalls["fallback"] = 0
        /\ facilitator.settle = NoSettleResult

\* a verify-only request went through the gate and its handler's success was delivered
C6_Witness ==
    /\ config.VerifyOnly
    /\ pc = "done"
    /\ handler.gated
    /\ \/ variant = "http" /\ CommittedSuccess /\ HandlerBytesSent
       \/ variant = "mcp" /\ ParsesAsJSONRPC(w.body) /\ w.body[1].kind = "rpcResult"

\* C7: with VerifyOnly = true, a verified request whose handler succeeds yields a
\* response whose X-PAYMENT-RESPONSE decodes to success = true, transaction = "".
C7_VerifyOnlySyntheticHeader ==
    (variant = "http" /\ config.VerifyOnly /\ pc = "done" /\ CommittedSuccess
        /\ ~w.hijacked /\ w.status = interceptor.commitStatus) =>
        /\ ClientPaymentResponse # NoValue
        /\ DecodeSettlement(ClientPaymentResponse[1]).ok
        /\ DecodeSettlement(ClientPaymentResponse[1]).settlement.success
        /\ DecodeSettlement(ClientPaymentResponse[1]).settlement.transaction = ""

\* C8: when settle succeeds, the response carries X-PAYMENT-RESPONSE decoding to
\* exactly the SettleResponse the facilitator returned, under the handler's own
\* status, and the handler's body follows unchanged.
C8_SettledResponseForwarded ==
    (variant = "http" /\ ~config.VerifyOnly /\ CommittedSuccess /\ SettleSucceeded
        /\ ~w.hijacked) =>
        /\ ClientPaymentResponse = <<EncodeSettlement(facilitator.settle.resp)>>
        /\ DecodeSettlement(ClientPaymentResponse[1]).settlement = facilitator.settle.resp
        /\ w.status = interceptor.commitStatus
        /\ Len(w.body) = handler.writes
        /\ \A k \in 1..Len(w.body) : w.body[k] = HandlerBytes

\* C9: without an X-PAYMENT header the handler is not executed and the response is
\* a 402 whose JSON body has x402Version = 2 and a non-empty accepts list.
C9_NoHeaderGets402 ==
    (variant = "http" /\ request.header = NoValue) =>
        /\ ~handler.ran
        /\ (pc = "done" =>
              /\ w.status = 402
              /\ Len(w.body) = 1
              /\ w.body[1].kind = "PaymentRequired"
              /\ w.sent.ContentType = <<"application/json">>
              /\ w.body[1].x402Version = 2
              /\ Len(w.body[1].accepts) >= 1)

\* a request without the header has been answered
C9_Witness ==
    /\ variant = "http"
    /\ request.header = NoValue
    /\ pc = "done"
    /\ w.wroteHeader

\* C10: the protected handler (or paid tool) runs only after a facilitator's verify
\* answered isValid = true for the request's payment.
C10_HandlerOnlyAfterValidVerify ==
    (Protected /\ handler.ran) =>
        /\ facilitator.verifyCalls["primary"] >= 1
        /\ VerifiedValid

\* the handler of a protected request ran, the valid answer coming from the fallback
C10_Witness ==
    /\ Protected
    /\ handler.ran
    /\ handler.returned
    /\ facilitator.verifyCalls["fallback"] = 1

----------------------------------------------------------------------------
(* C11..C20 *)

\* C11: in the Gin adapter a settle request is made only once the protected handler
\* has committed a status below 400; no settle request is made for a request whose
\* handler fails.
C11_GinSettlesAfterHandlerSuccess ==
    (variant = "gin" /\ SettleCalls > 0) =>
        /\ handler.ran
        /\ w.wroteHeader
        /\ w.status \in 1..399

\* the wrapped MCP handler of a gated call answered with one JSON-RPC error object
ToolFailed ==
    /\ variant = "mcp"
    /\ handler.gated
    /\ ParsesAsJSONRPC(recorder.body)
    /\ recorder.body[1].kind = "rpcError"

\* C12: in the MCP handler, when the tool handler's response is a JSON-RPC error, no
\* settle request is made and the client receives the tool's response as recorded:
\* its status, its headers and its body.
C12_ToolErrorForwardedUnsettled ==
    (ToolFailed /\ pc = "done") =>
        /\ SettleCalls = 0
        /\ facilitator.settleRuns = 0
        /\ w.status = recorder.statusCode
        /\ w.body = recorder.body
        /\ \A k \in DOMAIN recorder.headerMap :
              recorder.headerMap[k] # NoValue => w.sent[k] = recorder.headerMap[k]
        /\ w.sent.XPaymentResponse = NoValue

\* a paid tool that set a header and failed, with settlement switched on
C12_Witness ==
    /\ ToolFailed
    /\ pc = "done"
    /\ ~config.VerifyOnly
    /\ recorder.headerMap.XHandler # NoValue
    /\ w.wroteHeader

\* the verify answer the gate acted on was isValid = false
VerifyRejected ==
    /\ facilitator.verifyCalls["primary"] > 0
    /\ facilitator.verify.err = ""
    /\ ~facilitator.verify.isValid

\* the settle answer the gate acted on was success = false
SettleRejected ==
    /\ SettleCalls > 0
    /\ facilitator.settle.err = ""
    /\ ~facilitator.settle.resp.success

\* the reason the facilitator gave for its refusal
FacilitatorReason ==
    IF VerifyRejected THEN facilitator.verify.invalidReason
    ELSE facilitator.settle.resp.errorReason

\* C13: when verify answers isValid = false or settle answers success = false, the
\* client gets a payment-required answer carrying the facilitator's reason: HTTP
\* status 402 from the HTTP middleware, JSON-RPC error code 402 from the MCP handler.
C13_SemanticFailureIs402 ==
    (variant \in {"http", "mcp"} /\ (VerifyRejected \/ SettleRejected)) =>
        IF variant = "http"
        THEN /\ w.status = 402
             /\ \E k \in 1..Len(w.body) :
                   /\ w.body[k].kind = "PaymentRequired"
                   /\ w.body[k].error = FacilitatorReason
        ELSE /\ Len(w.body) = 1
             /\ w.body[1].kind = "rpcError"
             /\ w.body[1].code = 402
             /\ \E k \in 1..Len(w.body[1].error) : w.body[1].error[k] = FacilitatorReason

\* C14: headers the handler sets before the commit point do not reach the client
\* before the commit, and when settlement fails on a success path the 402/503 sent
\* in place of the handler's response has none of them.
C14_HandlerHeadersHeldBack ==
    /\ (variant = "http" /\ ~interceptor.committed /\ ~w.wroteHeader) =>
           w.sent.XHandler = NoValue
    /\ (variant = "http" /\ CommittedSuccess /\ SettleFailed /\ w.status \in {402, 503}) =>
           w.sent.XHandler = NoValue

\* C15: when the handler hijacks the connection before any commit, settlement runs
\* first; once a Hijack has returned an error because settlement failed, the
\* connection is never handed to the handler.
C15_HijackSettlesFirst ==
    /\ (variant = "http" /\ handler.conn /\ interceptor.commitStatus = 0) =>
           /\ facilitator.settleRuns = 1
           /\ config.VerifyOnly \/ SettleSucceeded
    /\ (variant = "http" /\ handler.refused) =>
           /\ ~handler.conn
           /\ ~w.hijacked

\* C16: the fallback facilitator's verify is called only when a fallback is
\* configured and the primary's verify failed with a transport failure
\* (ErrFacilitatorUnavailable).
C16_FallbackOnlyOnTransportFailure ==
    facilitator.verifyCalls["fallback"] > 0 =>
        /\ config.fallback
        /\ facilitator.verifyCalls["primary"] = 1
        /\ facilitator.verifyPrimary.err = "unavailable"

\* C17: the MCP handler intercepts only a POST whose method is tools/call and whose
\* tool has payment requirements; any other request goes to the wrapped handler,
\* whose response is the client's, and no verify or settle request is made for it.
C17_OnlyPaidToolCallsIntercepted ==
    (variant = "mcp" /\ ~Protected /\ pc # "start") =>
        /\ handler.ran
        /\ ~handler.gated
        /\ facilitator = NewFacilitatorLog
        /\ \A k \in 1..Len(w.body) : w.body[k].from = "tool"

\* C18: a tools/call of a paid tool without params._meta["x402/payment"] is answered
\* with HTTP 200 and a JSON-RPC error of code 402 whose data has x402Version, the
\* tool's resource and its non-empty accepts list; the tool handler is not executed.
C18_PaidToolWithoutPaymentGets402 ==
    (variant = "mcp" /\ Protected /\ request.payment = NoValue) =>
        /\ ~handler.ran
        /\ facilitator = NewFacilitatorLog
        /\ (pc = "done" =>
              /\ w.status = 200
              /\ w.sent.ContentType = <<"application/json">>
              /\ Len(w.body) = 1
              /\ w.body[1].kind = "rpcError"
              /\ w.body[1].code = 402
              /\ w.body[1].x402Version = X402Version
              /\ w.body[1].resource =
                    (IF config.resource = "" THEN <<"mcp://tools/", PaidTool>>
                     ELSE <<config.resource>>)
              /\ Len(w.body[1].accepts) >= 1
              /\ w.body[1].accepts = config.requirements)

\* a paid tool registered without a resource URL was called without a payment and
\* the call has been answered
C18_Witness ==
    /\ variant = "mcp"
    /\ Protected
    /\ request.payment = NoValue
    /\ config.resource = ""
    /\ pc = "done"
    /\ w.wroteHeader

\* C19: a request whose X-PAYMENT header does not decode, or decodes to a payload of
\* another x402Version, is answered with status 400 and a JSON body holding
\* x402Version and error; the handler is not executed.
C19_BadHeaderGets400JSON ==
    (/\ variant \in {"http", "gin"}
     /\ request.header # NoValue
     /\ ParsePaymentHeader(request.header).err # "") =>
        /\ ~handler.ran
        /\ facilitator = NewFacilitatorLog
        /\ (pc = "done" =>
              /\ w.status = 400
              /\ w.sent.ContentType \in {<<"application/json">>,
                                         <<"application/json; charset=utf-8">>}
              /\ Len(w.body) = 1
              /\ w.body[1].kind = "json"
              /\ w.body[1].x402Version = X402Version
              /\ w.body[1].error # "")

\* the response is a payment-required answer: HTTP status 402, or JSON-RPC error 402
Is402(resp) ==
    ~resp.err /\ (IF client.kind = "http" THEN resp.status = 402 ELSE resp.code = 402)

\* C20: for one call the auto-pay transport sends at most two requests: the original
\* one and, after a 402, one retry that carries the payment; a 402 in answer to the
\* retry is returned to the caller and nothing more is sent.
C20_AtMostOneRetry ==
    /\ Len(client.requests) <= 2
    /\ Len(client.requests) >= 1 => client.requests[1].payment = NoValue
    /\ Len(client.requests) = 2 =>
          /\ Is402(client.responses[1])
          /\ client.requests[2].payment # NoValue
          /\ client.pc = "done"
          /\ Is402(client.responses[2]) =>
                /\ client.result.returned
                /\ client.result.resp = <<client.responses[2]>>
                /\ client.result.err = ""

\* a paid retry was answered with a second 402 and the call has returned
C20_Witness ==
    /\ client.pc = "done"
    /\ Len(client.requests) = 2
    /\ Is402(client.responses[2])

----------------------------------------------------------------------------
(* C21..C30 *)

\* how many events of the given type the transport has emitted during the call
Emitted(type) ==
    Cardinality({k \in 1..Len(client.events) : client.events[k].type = type})

\* the call has returned after a retry was sent
Retried == client.pc = "done" /\ Len(client.requests) = 2

\* C21: when the paid retry is answered with 402 again, PaymentEventFailure is
\* emitted exactly once for the call.
C21_Second402EmitsOneFailure ==
    (Retried /\ Is402(client.responses[2])) => Emitted("failure") = 1

\* the response is a success: HTTP status 200, or a JSON-RPC result
Is200(resp) ==
    ~resp.err /\ (IF client.kind = "http" THEN resp.status = 200 ELSE resp.code = 0)

\* C22: when the paid retry is answered with 200, PaymentEventSuccess is emitted
\* exactly once for the call.
C22_PaidRetryEmitsOneSuccess ==
    (Retried /\ Is200(client.responses[2])) => Emitted("success") = 1

\* C23: when selecting or signing a payment fails after a 402, the call returns the
\* error to the caller, one PaymentEventFailure is emitted, and no retry is sent
SelectionFailed ==
    client.pc = "done" /\ client.selection.called /\ client.selection.err # ""

C23_SelectionFailureReported ==
    SelectionFailed =>
        /\ client.result.err # ""
        /\ Emitted("failure") = 1
        /\ Len(client.requests) = 1

\* the first answer is a 402 whose payment-required body offers nothing or names a
\* protocol version other than 2
UnusableOffer ==
    /\ Len(client.responses) >= 1
    /\ Is402(client.responses[1])
    /\ IF client.kind = "http"
       THEN /\ client.responses[1].body[1].kind = "PaymentRequired"
            /\ \/ Len(client.responses[1].body[1].accepts) = 0
               \/ client.responses[1].body[1].x402Version # X402Version
       ELSE /\ client.responses[1].data # NoValue
            /\ \/ Len(client.responses[1].data[1].accepts) = 0
               \/ client.responses[1].data[1].x402Version # X402Version

\* C24: after a 402 whose accepts list is empty or whose x402Version is not 2, the
\* client fails the call without selecting, signing or resending
C24_UnusableOfferFailsCall ==
    UnusableOffer =>
        /\ ~client.selection.called
        /\ Len(client.requests) = 1
        /\ client.pc = "done" /\ client.result.err # ""

\* the event carries the network, scheme, amount, asset and recipient of req
CarriesRequirement(event, req) ==
    /\ event.network = req.network
    /\ event.scheme = req.scheme
    /\ event.amount = req.amount
    /\ event.asset = req.asset
    /\ event.recipient = req.payTo

\* C25: the PaymentEventAttempt of a call carries the network, scheme, amount, asset
\* and recipient of the requirement the selector chose, also when several of the
\* offered requirements share scheme and network
C25_AttemptCarriesSelectedRequirement ==
    \A k \in 1..Len(client.events) :
        client.events[k].type = "attempt" =>
            CarriesRequirement(client.events[k],
                               client.selection.accepts[client.selection.selected[2]])

\* the sort key of a candidate: signer priority, token priority, signer index,
\* requirement index
SortKey(c) ==
    <<client.signers[c[1]].priority,
      TokenPriority(client.signers[c[1]], client.selection.accepts[c[2]]),
      c[1], c[2]>>

\* a comes before b in the lexicographic order of the keys
LexBefore(a, b) ==
    \E i \in 1..4 : a[i] < b[i] /\ \A j \in 1..(i - 1) : a[j] = b[j]

\* SelectAndSign made a choice
Selected == client.selection.called /\ client.selection.selected # NoCandidate

\* C26: SelectAndSign chooses the candidate that is least under the lexicographic
\* order on (signer priority, token priority, signer index, requirement index); the
\* order is total, so the choice is determined by the inputs
C26_SelectsLexicographicMinimum ==
    Selected =>
        \A d \in Candidates(client.signers, client.selection.accepts) :
            d # client.selection.selected =>
                LexBefore(SortKey(client.selection.selected), SortKey(d))

\* a choice made between candidates that tie on both priorities
C26_Witness ==
    /\ Selected
    /\ \E d \in Candidates(client.signers, client.selection.accepts) :
          /\ d # client.selection.selected
          /\ SortKey(d)[1] = SortKey(client.selection.selected)[1]
          /\ SortKey(d)[2] = SortKey(client.selection.selected)[2]

\* SelectAndSign was called with signers none of which can sign any of the requirements
NoSignerCanSign ==
    /\ client.selection.called
    /\ \A i \in 1..Len(client.signers), r \in 1..Len(client.selection.accepts) :
          ~CanSign(client.signers[i], client.selection.accepts[r])

\* some requirement handed to SelectAndSign has an amount that parses
SomeAmountParses ==
    \E r \in 1..Len(client.selection.accepts) :
        SetString(client.selection.accepts[r].amount).ok

\* C27 as stated: when no signer can sign any requirement, SelectAndSign returns
\* NoValidSigner and calls Sign on no signer
C27_NoSignerIsNoValidSigner ==
    NoSignerCanSign =>
        client.selection.err = "NoValidSigner" /\ client.selection.signed = <<>>

\* C27, amended: when no signer can sign any requirement, SelectAndSign calls Sign on
\* no signer and returns NoValidSigner, except that with at least one signer and no
\* requirement whose amount parses it returns InvalidRequirements
C27_NoSignerIsNoValidSignerOrInvalid ==
    NoSignerCanSign =>
        /\ client.selection.signed = <<>>
        /\ client.selection.err =
              IF Len(client.signers) > 0 /\ ~SomeAmountParses
              THEN "InvalidRequirements" ELSE "NoValidSigner"

\* signers are configured and an amount parses, yet none of them can sign
C27_Witness ==
    NoSignerCanSign /\ Len(client.signers) > 0 /\ SomeAmountParses /\ client.pc = "done"

\* the requirement's amount is above the signer's configured maximum
ExceedsMaxAmount(signer, req) ==
    /\ signer.maxAmount # NoValue
    /\ SetString(req.amount).ok
    /\ SetString(req.amount).value > signer.maxAmount[1]

\* C28: a signer whose configured maximum is M is never selected for, nor asked to
\* sign, a requirement whose atomic amount exceeds M
C28_MaxAmountRespected ==
    client.selection.called =>
        \A c \in {client.selection.selected} \cup
                 {client.selection.signed[k] : k \in 1..Len(client.selection.signed)} :
            c # NoCandidate =>
                ~ExceedsMaxAmount(client.signers[c[1]], client.selection.accepts[c[2]])

\* SelectAndSign returned with a limited signer facing a requirement it could sign
\* but for the amount
C28_Witness ==
    /\ client.selection.called
    /\ client.pc # "start"
    /\ \E i \in 1..Len(client.signers), r \in 1..Len(client.selection.accepts) :
          /\ CanSign(client.signers[i], client.selection.accepts[r])
          /\ ExceedsMaxAmount(client.signers[i], client.selection.accepts[r])

\* the amount is a decimal integer that is not negative
NonNegativeInteger(str) == SetString(str).ok /\ SetString(str).value >= 0

\* C29: if no requirement in the list has an amount that is a parseable non-negative
\* decimal integer, SelectAndSign (given signers) returns InvalidRequirements and
\* signs nothing
C29_NoValidAmountIsInvalidRequirements ==
    (/\ client.selection.called
     /\ Len(client.signers) > 0
     /\ \A r \in 1..Len(client.selection.accepts) :
           ~NonNegativeInteger(client.selection.accepts[r].amount))
    => /\ client.selection.err = "InvalidRequirements"
       /\ client.selection.signed = <<>>

\* the reply is an HTTP response from the facilitator, whatever its status
IsHTTPResponse(reply) == ~reply.err

----------------------------------------------------------------------------
(* C31..C40 *)

\* C31: a verify or settle call makes at most MaxRetries+1 HTTP attempts, and the
\* facilitator client a server variant builds, for which no retry count can have
\* been configured, makes a single attempt
C31_AttemptsBoundedOneByDefault ==
    /\ Len(call.replies) <= (IF call.MaxRetries < 0 THEN 0 ELSE call.MaxRetries) + 1
    /\ call.builtBy \in {"http", "gin", "mcp"} => Len(call.replies) <= 1

\* the call passed its OnBefore hook and has returned
ReturnedAfterAttempts == call.pc = "done" /\ call.op # "" /\ ~call.beforeHook

\* C32: for a verify or settle call that passes its OnBefore hook, the OnAfter hook
\* is invoked exactly once, after the last attempt, with the response and the error
\* the call returns to its caller; it is not invoked before the call is over, nor
\* for a call the OnBefore hook refused
C32_OnAfterOnceWithFinalResult ==
    /\ ReturnedAfterAttempts =>
          /\ Len(call.after) = 1
          /\ call.after[1].attempts = Len(call.replies)
          /\ call.after[1].resp = call.result.resp
          /\ call.after[1].err = call.result.err
    /\ ~ReturnedAfterAttempts => call.after = <<>>

\* C33: when /supported cannot be reached, EnrichRequirements returns no error and
\* returns the original requirement list
C33_UnreachableSupportedIsNoError ==
    (enrich.result.returned /\ enrich.supported.err = "FacilitatorUnavailable") =>
        /\ enrich.result.err = ""
        /\ enrich.result.list = enrich.requirements

\* C39: EnrichRequirements never modifies the requirement list or the Extra maps
\* the caller passed in; merged facilitator keys appear only in the returned copy
C39_CallerDataUntouched ==
    enrich.result.returned =>
        \A i \in 1..Len(enrich.requirements) :
            enrich.requirements[i].Extra # NilMap =>
                enrich.maps[enrich.requirements[i].Extra]
                    = enrich.heap[enrich.requirements[i].Extra]

\* C34: with VerifyOnly = false, a verified request whose handler completes with a
\* success outcome, the handler that returns without calling Write or WriteHeader
\* (implicit 200) included, has had settle invoked, and succeed, by the time the
\* response is complete; no success response is delivered unsettled
C34_NoSuccessUnsettled ==
    (/\ variant = "http"
     /\ ~config.VerifyOnly
     /\ handler.ran
     /\ pc = "done"
     /\ w.wroteHeader
     /\ w.status \in 1..399)
    => SettleCalls > 0 /\ SettleSucceeded

\* C35: for one gated request at most one settle request in total reaches the
\* facilitators, the primary and the fallback facilitator counted together
C35_AtMostOneSettleRequest == SettleCalls <= 1

\* C36: a Flush the handler calls before the commit point sends nothing to the
\* client, neither status line nor headers, so that a settle failure afterwards
\* still replaces the whole response
C36_FlushBeforeCommitSendsNothing ==
    /\ (variant = "http" /\ pc = "handler" /\ ~interceptor.committed /\ ~handler.conn)
          => ~w.wroteHeader
    /\ (variant = "http" /\ ~config.VerifyOnly /\ SettleFailed /\ w.wroteHeader
           /\ ~handler.conn)
          => w.status \in {402, 503}

\* output of the paid tool is in the response the client receives: bytes the wrapped
\* handler wrote that are not a JSON-RPC error
ToolOutputDelivered ==
    \E k \in 1..Len(w.body) : w.body[k].from = "tool" /\ w.body[k].kind # "rpcError"

\* C37: in the MCP handler with VerifyOnly = false, the output of a paid tool is
\* delivered to the client only if settle succeeded, whatever form the wrapped
\* handler's response body takes
C37_NoToolOutputUnsettled ==
    (variant = "mcp" /\ handler.gated /\ ~config.VerifyOnly /\ ToolOutputDelivered)
        => SettleSucceeded

\* C38: the retried request is the original one in method, URL, headers and body,
\* with the X-PAYMENT header added; a body the first send consumed is sent again in
\* full
C38_RetryRepeatsRequest ==
    Len(client.requests) >= 2 =>
        /\ client.requests[2].method = client.requests[1].method
        /\ client.requests[2].url = client.requests[1].url
        /\ client.requests[2].header = client.requests[1].header
        /\ client.requests[2].payment # NoValue
        /\ client.requests[2].body = client.requests[1].body

\* C40: a zero amount is permitted throughout: validation accepts "0", a signer that
\* can sign a requirement signs it when its amount is "0", and a signer answers
\* InvalidAmount only for an amount that is not a parseable decimal integer
C40_ZeroAmountPermitted ==
    /\ ValidateAmount("0") = ""
    /\ Selected =>
          LET signer == client.signers[client.selection.selected[1]]
              req == client.selection.accepts[client.selection.selected[2]]
          IN  /\ (req.amount = "0" /\ ~signer.signFails) => client.selection.err = ""
              /\ client.selection.signErr = "InvalidAmount" => ~SetString(req.amount).ok

============================================================================
